---- MODULE Spec2Model ----
(***************************************************************************)
(* A model of the mcp_memory JSON-RPC gateway: bearer authentication, the  *)
(* per-key token bucket, the tool registry dispatch and the SQLite record  *)
(* store with its FTS5 index.                                              *)
(*                                                                         *)
(* Units.  The limiter is built with rate_per_sec = RatePerSec and burst = *)
(* Burst.  One clock tick is 1 / (RatePerSec * TicksPerToken) seconds and  *)
(* token counts are held in units of 1 / TicksPerToken token, so that the  *)
(* float arithmetic of TokenBucket.allow is exact integer arithmetic here: *)
(* the bucket refills one unit per tick and a call costs TicksPerToken     *)
(* units.                                                                  *)
(***************************************************************************)
EXTENDS Integers, Sequences, FiniteSets, TLC

VARIABLES
    now,        \* time.monotonic(), in ticks
    buckets,    \* RateLimiter.buckets: key -> TokenBucket
    calls,      \* per key: the allow(key) calls made, those granted, the time of the first
                \* (under SpecWindow also the calls granted since each instant)
    lastAllow,  \* the last RateLimiter.allow call and what it returned
    pc,         \* per in-flight request: where its coroutine stands
    running,    \* the coroutine the event loop is running, None between coroutines
    local,      \* per in-flight request: its local variables
    db,         \* the SQLite database file
    utc,        \* datetime.utcnow(), in ticks
    last,       \* the last tool handler call: tool, caller, arguments, outcome
    domain,     \* the tools this run calls: those of memory/ or those of linkbrain/
    solo,       \* per scope: the database had only that scope made its calls
    idmap,      \* per scope: what its caller keeps of earlier results (the id in solo of
                \* each record it created; under SpecList its latest memory_store)
    conns,      \* per worker process: the handler call it is in and its position
    journal,    \* the write lock of the database file and the uncommitted transaction
    response    \* the last HTTP exchange of the gateway: request, steps taken, response

limiterVars == <<now, buckets, calls, lastAllow>>
loopVars == <<pc, running, local>>
storeVars == <<db, utc, last, domain, solo, idmap>>
ioVars == <<conns, journal, response>>
vars == <<now, buckets, calls, lastAllow, pc, running, local,
          db, utc, last, domain, solo, idmap, conns, journal, response>>

None == "None"

(***************************************************************************)
(* Values.  A Python str is a sequence of characters, each a one-element   *)
(* TLA+ string; None (SQL NULL, JSON null) and an absent tag list are       *)
(* sequences of their own that no str equals.                              *)
(***************************************************************************)
Null == <<"#None">>
NoList == << <<"#NoList">> >>

\* Python truthiness of a str-or-None and of a list-or-None
Truthy(v) == v # Null /\ v # << >>
TruthyList(l) == l # NoList /\ l # << >>

Min(a, b) == IF a <= b THEN a ELSE b

(***************************************************************************)
(* Bounds of the model.                                                    *)
(***************************************************************************)
TicksPerToken == 2
MaxTime == 3
\* allow calls made with the first key, and with each other key
MaxCalls == 17
MaxOtherCalls == 1

(***************************************************************************)
(* create_app: limiter = RateLimiter(rate_per_sec=5.0, burst=15).           *)
(***************************************************************************)
RatePerSec == 5
Burst == 15

TicksPerSecond == RatePerSec * TicksPerToken
\* self.rate, in units per tick
Rate == (RatePerSec * TicksPerToken) \div TicksPerSecond
\* the default cost = 1.0 of allow, in units
Cost == TicksPerToken
\* self.capacity = float(burst), in units
Capacity == Burst * TicksPerToken

\* request.client.host, and the user a request without X-User-Id is counted under
ClientIp == <<"i", "p">>
DefaultUser == <<"d", "e", "f", "a", "u", "l", "t">>

\* app.py: key = f"{client_ip}:{x_user_id or 'default'}"
LimiterKey(client_ip, x_user_id) ==
    client_ip \o <<":">> \o (IF Truthy(x_user_id) THEN x_user_id ELSE DefaultUser)

XUserIds == {Null, <<"a">>}
LimiterKeys == {LimiterKey(ClientIp, x) : x \in XUserIds}
NoKey == << >>

(***************************************************************************)
(* TokenBucket.__init__: a full bucket stamped with the creation time.     *)
(***************************************************************************)
NewBucket(t) == [tokens |-> Capacity, updated_at |-> t]

\* a top-up that forgets the elapsed time
ToppedUpNoRefill(b, t) == Min(Capacity, b.tokens)

\* a top-up without the cap
ToppedUpNoCap(b, t) == b.tokens + (t - b.updated_at) * Rate

\* the top-up of TokenBucket.allow: min(capacity, tokens + elapsed * rate)
ToppedUp(b, t) == Min(Capacity, b.tokens + (t - b.updated_at) * Rate)

\* a test that lets a call through on any fraction of a token
AffordableAnyToken(tokens, cost) == tokens > 0

\* the test that decides whether the call is allowed
Affordable(tokens, cost) == tokens >= cost

\* an allow that stamps updated_at on a refused call but drops its top-up
AllowRefusedLosesRefill(b, t, cost) ==
    LET topped == ToppedUp(b, t)
    IN  IF Affordable(topped, cost)
        THEN [bucket |-> [tokens |-> topped - cost, updated_at |-> t], ok |-> TRUE]
        ELSE [bucket |-> [tokens |-> b.tokens, updated_at |-> t], ok |-> FALSE]

(***************************************************************************)
(* TokenBucket.allow(cost) at time t: the bucket after the call and the    *)
(* value returned.                                                         *)
(***************************************************************************)
TokenBucket_allow(b, t, cost) ==
    LET topped == ToppedUp(b, t)
    IN  IF Affordable(topped, cost)
        THEN [bucket |-> [tokens |-> topped - cost, updated_at |-> t], ok |-> TRUE]
        ELSE [bucket |-> [tokens |-> topped, updated_at |-> t], ok |-> FALSE]

(***************************************************************************)
(* RateLimiter.allow(key, cost): the bucket is created on the first use of *)
(* the key and then charged.                                               *)
(***************************************************************************)
RateLimiter_allow(bks, key, t, cost) ==
    LET bucket == IF key \in DOMAIN bks THEN bks[key] ELSE NewBucket(t)
        r == TokenBucket_allow(bucket, t, cost)
    IN  [buckets |-> [k \in DOMAIN bks \cup {key} |->
                        IF k = key THEN r.bucket ELSE bks[k]],
         ok |-> r.ok]

(***************************************************************************)
(* The caller scopes and the state of the store before any call.           *)
(***************************************************************************)
Scopes == {<<"a">>, <<"b">>}

NoCall == [tool |-> None, user_scope |-> << >>, args |-> << >>,
           raised |-> FALSE, result |-> << >>]

NoIds == [memories |-> << >>, links |-> << >>]

InitStoreIdle ==
    /\ db = << >>
    /\ utc = 0
    /\ last = NoCall
    /\ domain = None
    /\ solo = << >>
    /\ idmap = << >>

NoResponse == [status |-> 0]

InitIdle ==
    /\ conns = << >>
    /\ journal = << >>
    /\ response = NoResponse

NoAllow == [key |-> NoKey, ok |-> FALSE, n |-> 0, at |-> 0, prevAt |-> 0,
            before |-> 0, after |-> 0, created |-> 0]

NoCalls == [n |-> 0, granted |-> 0, created |-> 0]

CallBound(key) == IF key = LimiterKey(ClientIp, Null) THEN MaxCalls ELSE MaxOtherCalls

Requests == {"r1", "r2"}

NoLocal == [key |-> NoKey, ok |-> FALSE]

InitLimiter ==
    /\ now = 0
    /\ buckets = << >>
    /\ calls = [k \in LimiterKeys |-> NoCalls]
    /\ lastAllow = NoAllow

InitLoop ==
    /\ pc = [r \in Requests |-> "idle"]
    /\ running = None
    /\ local = [r \in Requests |-> NoLocal]

\* time passes
Tick ==
    /\ now < MaxTime
    /\ now' = now + 1
    /\ UNCHANGED <<buckets, calls, lastAllow, loopVars, storeVars, ioVars>>

\* the record kept of one allow(key) call
AllowRecord(key, ok, tokensAfter) ==
    LET fresh == key \notin DOMAIN buckets
    IN  [key |-> key, ok |-> ok, n |-> calls[key].n + 1, at |-> now,
         prevAt |-> IF fresh THEN now ELSE buckets[key].updated_at,
         before |-> IF fresh THEN Capacity ELSE buckets[key].tokens,
         after |-> tokensAfter,
         created |-> IF fresh THEN now ELSE calls[key].created]

\* the bucket of key is created now, if it does not exist yet
Created(key) ==
    IF key \in DOMAIN buckets THEN calls[key].created ELSE now

Counted(key, ok) ==
    [calls EXCEPT ![key] = [n |-> @.n + 1,
                            granted |-> @.granted + (IF ok THEN 1 ELSE 0),
                            created |-> Created(key)]]

\* one call limiter.allow(key), run from start to return
Allow(key) ==
    /\ calls[key].n < CallBound(key)
    /\ LET r == RateLimiter_allow(buckets, key, now, Cost)
       IN  /\ buckets' = r.buckets
           /\ lastAllow' = AllowRecord(key, r.ok, r.buckets[key].tokens)
           /\ calls' = Counted(key, r.ok)
    /\ UNCHANGED <<now, loopVars, storeVars, ioVars>>

NextBucket ==
    \/ Tick
    \/ \E key \in LimiterKeys : Allow(key)

InitBucket == InitLimiter /\ InitLoop /\ InitStoreIdle /\ InitIdle

SpecBucket == InitBucket /\ [][NextBucket]_vars

(***************************************************************************)
(* Sequential calls with a log: calls[key].since[t] is the number of calls *)
(* of the key granted at instant t or later.                               *)
(***************************************************************************)
MaxWindowTime == 5

\* the keys that call: a client without X-User-Id
WindowKeys == {LimiterKey(ClientIp, Null)}

NoCallsLogged ==
    [n |-> 0, granted |-> 0, created |-> 0, since |-> [t \in 0..MaxWindowTime |-> 0]]

InitWindow ==
    /\ now = 0
    /\ buckets = << >>
    /\ calls = [k \in LimiterKeys |-> NoCallsLogged]
    /\ lastAllow = NoAllow
    /\ InitLoop
    /\ InitStoreIdle
    /\ InitIdle

\* one call limiter.allow(key), run from start to return, and logged
AllowLogged(key) ==
    /\ calls[key].n < CallBound(key)
    /\ LET r == RateLimiter_allow(buckets, key, now, Cost)
       IN  /\ buckets' = r.buckets
           /\ lastAllow' = AllowRecord(key, r.ok, r.buckets[key].tokens)
           /\ calls' = [calls EXCEPT ![key] =
                 [n |-> @.n + 1,
                  granted |-> @.granted + (IF r.ok THEN 1 ELSE 0),
                  created |-> Created(key),
                  since |-> [t \in 0..MaxWindowTime |->
                               IF r.ok /\ t <= now THEN @.since[t] + 1 ELSE @.since[t]]]]
    /\ UNCHANGED <<now, loopVars, storeVars, ioVars>>

\* time passes, long enough for an idle bucket to fill up
WindowTick ==
    /\ now < MaxWindowTime
    /\ now' = now + 1
    /\ UNCHANGED <<buckets, calls, lastAllow, loopVars, storeVars, ioVars>>

NextWindow ==
    \/ WindowTick
    \/ \E key \in WindowKeys : AllowLogged(key)

SpecWindow == InitWindow /\ [][NextWindow]_vars

(***************************************************************************)
(* Concurrent requests.  mcp_endpoint is an async def run by one event     *)
(* loop: a request's coroutine is switched out only where it awaits, and   *)
(* its only await is request.json(); limiter.allow is a plain synchronous   *)
(* call.  A request is in flight from its arrival to its response:         *)
(*   idle -> await_json -> allow_checked -> idle                           *)
(* where allow_checked is the point inside TokenBucket.allow between the   *)
(* test of self.tokens >= cost and the statement that spends the tokens.   *)
(***************************************************************************)

\* an event loop that may switch coroutines in the middle of TokenBucket.allow
YieldPointsInsideAllow == {"await_json", "allow_checked"}

\* an event loop that may switch coroutines between buckets.get(key) and the insert
YieldPointsAfterLookup == {"await_json", "looked_up"}

\* the labels at which a coroutine hands control back to the event loop
YieldPoints == {"await_json"}

\* the event loop lets r take a step
Scheduled(r) == running \in {None, r}

\* who runs after r has moved to label l
RunningAfter(r, l) == IF l \in YieldPoints \/ l = "idle" THEN None ELSE r

\* a request arrives, passes ensure_bearer_auth and awaits its body
Arrive(r, key) ==
    /\ pc[r] = "idle"
    /\ Scheduled(r)
    /\ calls[key].n + Cardinality({q \in Requests : local[q].key = key}) < CallBound(key)
    /\ pc' = [pc EXCEPT ![r] = "await_json"]
    /\ local' = [local EXCEPT ![r] = [key |-> key, ok |-> FALSE]]
    /\ running' = RunningAfter(r, "await_json")
    /\ UNCHANGED <<limiterVars, storeVars, ioVars>>

(***************************************************************************)
(* The body has arrived: RateLimiter.allow looks the bucket up (creating   *)
(* it), TokenBucket.allow stamps updated_at, tops the tokens up and tests  *)
(* them against the cost.                                                  *)
(***************************************************************************)
AllowCheck(r) ==
    /\ pc[r] = "await_json"
    /\ Scheduled(r)
    /\ LET key == local[r].key
           bucket == IF key \in DOMAIN buckets THEN buckets[key] ELSE NewBucket(now)
           topped == ToppedUp(bucket, now)
       IN  /\ buckets' = [k \in DOMAIN buckets \cup {key} |->
                            IF k = key THEN [tokens |-> topped, updated_at |-> now]
                            ELSE buckets[k]]
           /\ local' = [local EXCEPT ![r].ok = Affordable(topped, Cost)]
    /\ pc' = [pc EXCEPT ![r] = "allow_checked"]
    /\ running' = RunningAfter(r, "allow_checked")
    /\ calls' = [calls EXCEPT ![local[r].key].created = Created(local[r].key)]
    /\ UNCHANGED <<now, lastAllow, storeVars, ioVars>>

(***************************************************************************)
(* self.tokens -= cost when the test passed, and allow returns; the rest   *)
(* of the handler does not touch the limiter.                              *)
(***************************************************************************)
AllowSpend(r) ==
    /\ pc[r] = "allow_checked"
    /\ Scheduled(r)
    /\ LET key == local[r].key
           ok == local[r].ok
           after == IF ok THEN buckets[key].tokens - Cost ELSE buckets[key].tokens
       IN  /\ buckets' = [buckets EXCEPT ![key].tokens = after]
           /\ calls' = Counted(key, ok)
           /\ lastAllow' = [AllowRecord(key, ok, after) EXCEPT !.prevAt = 0, !.before = 0]
    /\ pc' = [pc EXCEPT ![r] = "idle"]
    /\ local' = [local EXCEPT ![r] = NoLocal]
    /\ running' = RunningAfter(r, "idle")
    /\ UNCHANGED <<now, storeVars, ioVars>>

NextLoop ==
    \/ Tick
    \/ \E r \in Requests, key \in LimiterKeys : Arrive(r, key)
    \/ \E r \in Requests : AllowCheck(r)
    \/ \E r \in Requests : AllowSpend(r)

SpecLoop == InitBucket /\ [][NextLoop]_vars

(***************************************************************************)
(* RateLimiter.allow taken statement by statement:                         *)
(*   idle -> await_json -> looked_up -> allow_checked -> idle              *)
(* where looked_up is the point after bucket = self.buckets.get(key).  A   *)
(* TokenBucket object is told from another by its serial, the number of    *)
(* buckets made for the key so far; a request keeps the serial of the      *)
(* bucket its lookup found, 0 for None.  The bucket a request goes on to   *)
(* charge is the one it found or made, which is the one in the map for as  *)
(* long as no second bucket has been made for the key.                     *)
(***************************************************************************)
SerialOf(key) == IF key \in DOMAIN buckets THEN buckets[key].serial ELSE 0

\* bucket = self.buckets.get(key)
Lookup(r) ==
    /\ pc[r] = "await_json"
    /\ Scheduled(r)
    /\ local' = [local EXCEPT ![r] = [key |-> @.key, ok |-> FALSE,
                                       found |-> SerialOf(@.key)]]
    /\ pc' = [pc EXCEPT ![r] = "looked_up"]
    /\ running' = RunningAfter(r, "looked_up")
    /\ UNCHANGED <<limiterVars, storeVars, ioVars>>

\* if bucket is None: a new TokenBucket is put in the map; then bucket.allow(cost)
\* stamps updated_at, tops the tokens up and tests them against the cost
MakeAndCheck(r) ==
    /\ pc[r] = "looked_up"
    /\ Scheduled(r)
    /\ LET key == local[r].key
           bucket == IF local[r].found = 0
                     THEN [tokens |-> Capacity, updated_at |-> now,
                           serial |-> SerialOf(key) + 1]
                     ELSE buckets[key]
           topped == ToppedUp(bucket, now)
       IN  /\ buckets' = [k \in DOMAIN buckets \cup {key} |->
                            IF k = key
                            THEN [tokens |-> topped, updated_at |-> now,
                                  serial |-> bucket.serial]
                            ELSE buckets[k]]
           /\ local' = [local EXCEPT ![r].ok = Affordable(topped, Cost)]
           /\ calls' = [calls EXCEPT ![key].created =
                           IF local[r].found = 0 THEN now ELSE @]
    /\ pc' = [pc EXCEPT ![r] = "allow_checked"]
    /\ running' = RunningAfter(r, "allow_checked")
    /\ UNCHANGED <<now, lastAllow, storeVars, ioVars>>

NextLookup ==
    \/ Tick
    \/ \E r \in Requests, key \in LimiterKeys : Arrive(r, key)
    \/ \E r \in Requests : Lookup(r)
    \/ \E r \in Requests : MakeAndCheck(r)
    \/ \E r \in Requests : AllowSpend(r)

SpecLookup == InitBucket /\ [][NextLookup]_vars


RECURSIVE Join(_, _)
\* sep.join(parts)
Join(parts, sep) ==
    IF parts = << >> THEN << >>
    ELSE IF Len(parts) = 1 THEN parts[1]
    ELSE parts[1] \o sep \o Join(Tail(parts), sep)

RECURSIVE Split(_, _)
\* s.split(sep) for a one-character sep: "".split(",") is [""]
Split(s, sep) ==
    IF \A i \in 1..Len(s) : s[i] # sep THEN <<s>>
    ELSE LET i == CHOOSE j \in 1..Len(s) :
                      s[j] = sep /\ \A k \in 1..(j - 1) : s[k] # sep
         IN  <<SubSeq(s, 1, i - 1)>> \o Split(SubSeq(s, i + 1, Len(s)), sep)

IsSpace(c) == c = " "

RECURSIVE Strip(_)
\* s.strip()
Strip(s) ==
    IF s = << >> THEN s
    ELSE IF IsSpace(s[1]) THEN Strip(Tail(s))
    ELSE IF IsSpace(s[Len(s)]) THEN Strip(SubSeq(s, 1, Len(s) - 1))
    ELSE s

UpperCase == <<"A", "B", "C", "D", "E", "F", "G", "H", "I", "J", "K", "L", "M",
               "N", "O", "P", "Q", "R", "S", "T", "U", "V", "W", "X", "Y", "Z">>
LowerCase == <<"a", "b", "c", "d", "e", "f", "g", "h", "i", "j", "k", "l", "m",
               "n", "o", "p", "q", "r", "s", "t", "u", "v", "w", "x", "y", "z">>

LowerChar(c) ==
    IF \E i \in 1..Len(UpperCase) : UpperCase[i] = c
    THEN LowerCase[CHOOSE i \in 1..Len(UpperCase) : UpperCase[i] = c]
    ELSE c

\* s.lower(), and the case folding of LIKE and of the FTS5 tokenizer
Lower(s) == [i \in 1..Len(s) |-> LowerChar(s[i])]

\* needle in hay
Contains(hay, needle) ==
    \E i \in 0..(Len(hay) - Len(needle)) : SubSeq(hay, i + 1, i + Len(needle)) = needle

\* SQL: ifnull(v, '')
IfNull(v) == IF v = Null THEN << >> ELSE v

RECURSIVE LikePattern(_, _)
\* SQL: v LIKE p, case-insensitive on ASCII: % is any run of characters, _ is any one
LikePattern(v, p) ==
    IF p = << >> THEN v = << >>
    ELSE IF Head(p) = "%"
    THEN LikePattern(v, Tail(p)) \/ (v # << >> /\ LikePattern(Tail(v), p))
    ELSE /\ v # << >>
         /\ Head(p) = "_" \/ LowerChar(Head(p)) = LowerChar(Head(v))
         /\ LikePattern(Tail(v), Tail(p))

\* SQL: v LIKE '%' || q || '%', q bound as it came (NULL LIKE x is not true); a q
\* without % and _ is a pattern that matches the strings that contain it
Like(v, q) ==
    /\ v # Null
    /\ IF \E i \in 1..Len(q) : q[i] \in {"%", "_"}
       THEN LikePattern(v, <<"%">> \o q \o <<"%">>)
       ELSE Contains(Lower(v), Lower(q))

\* the characters the FTS5 unicode61 tokenizer splits on
IsSeparator(c) == c \in {" ", ","}

RECURSIVE Tokens(_)
\* the tokens FTS5 indexes for a column value: the case-folded runs of token characters
Tokens(s) ==
    IF s = << >> THEN {}
    ELSE IF IsSeparator(s[1]) THEN Tokens(Tail(s))
    ELSE LET n == CHOOSE j \in 1..Len(s) :
                      /\ \A k \in 1..j : ~IsSeparator(s[k])
                      /\ (j = Len(s) \/ IsSeparator(s[j + 1]))
         IN  {Lower(SubSeq(s, 1, n))} \cup Tokens(SubSeq(s, n + 1, Len(s)))

(***************************************************************************)
(* An FTS5 MATCH argument made of barewords is the AND of its words; one   *)
(* that holds a character outside barewords and blanks, or no word at all, *)
(* is a syntax error (sqlite3.OperationalError).                           *)
(***************************************************************************)
FtsQueryOk(q) ==
    /\ q # Null
    /\ \A i \in 1..Len(q) : q[i] # ","
    /\ Tokens(q) # {}

\* row MATCH q: every word of q is a token of some column of the index row
FtsMatch(cols, q) ==
    \A w \in Tokens(q) : \E i \in 1..Len(cols) : w \in Tokens(cols[i])

(***************************************************************************)
(* The database file.  A table is a function from the ids of its rows to   *)
(* the rows; *_seq is the AUTOINCREMENT counter of the table (the largest  *)
(* id ever given); fts5 tells whether this SQLite build has FTS5, without  *)
(* which the *_fts tables do not exist and every statement naming them     *)
(* raises sqlite3.OperationalError.                                        *)
(***************************************************************************)
EmptyDb(fts5) ==
    [memories |-> << >>, memories_seq |-> 0, memories_fts |-> << >>,
     links |-> << >>, links_seq |-> 0, links_fts |-> << >>,
     fts5 |-> fts5]

\* a function with one more point, or with one point changed
Put(f, k, v) == [x \in DOMAIN f \cup {k} |-> IF x = k THEN v ELSE f[x]]

\* a function without the points of ks
Without(f, ks) == [x \in DOMAIN f \ ks |-> f[x]]

Max(a, b) == IF a >= b THEN a ELSE b

RECURSIVE Descending(_)
\* the numbers of a finite set, largest first: ORDER BY id DESC
Descending(ids) ==
    IF ids = {} THEN << >>
    ELSE LET m == CHOOSE x \in ids : \A y \in ids : y <= x
         IN  <<m>> \o Descending(ids \ {m})

\* LIMIT n OFFSET o: a negative limit is no limit, a negative offset is 0
LimitOffset(seq, n, o) ==
    LET from == Max(o, 0) + 1
        to == IF n < 0 THEN Len(seq) ELSE Min(Len(seq), Max(o, 0) + n)
    IN  SubSeq(seq, from, to)

(***************************************************************************)
(* validation.py                                                           *)
(***************************************************************************)
MAX_CONTENT_LEN == 10000
MAX_CONTEXT_LEN == 512
MAX_TAGS == 20
MAX_TAG_LEN == 64

\* a validation that does not look at the length of the tags
ValidationSkipsTagLength(content, tags, context) ==
    \/ content # Null /\ (Strip(content) = << >> \/ Len(content) > MAX_CONTENT_LEN)
    \/ context # Null /\ Len(context) > MAX_CONTEXT_LEN
    \/ tags # NoList /\ Len(tags) > MAX_TAGS

\* validate_memory_fields raises ValueError
ValidationFails(content, tags, context) ==
    \/ content # Null /\ (Strip(content) = << >> \/ Len(content) > MAX_CONTENT_LEN)
    \/ context # Null /\ Len(context) > MAX_CONTEXT_LEN
    \/ tags # NoList /\ ( \/ Len(tags) > MAX_TAGS
                          \/ \E i \in 1..Len(tags) : Len(tags[i]) > MAX_TAG_LEN )

(***************************************************************************)
(* memory/repository.py                                                    *)
(***************************************************************************)

(***************************************************************************)
(* init_db: CREATE TABLE IF NOT EXISTS, then, where FTS5 exists, the index *)
(* table and the backfill of every base row whose id is not in the index.  *)
(***************************************************************************)
MemoryFtsRow(row) ==
    [content |-> row.content, context |-> IfNull(row.context),
     tags |-> IfNull(row.tags), user_scope |-> row.user_scope]

init_db(d) ==
    IF ~d.fts5 THEN d
    ELSE [d EXCEPT !.memories_fts =
            [id \in DOMAIN d.memories \cup DOMAIN d.memories_fts |->
                IF id \in DOMAIN d.memories_fts THEN d.memories_fts[id]
                ELSE MemoryFtsRow(d.memories[id])]]

(***************************************************************************)
(* SQLite does not implement INSERT ... ON CONFLICT DO UPDATE for virtual  *)
(* tables: preparing the statement of fts_upsert and fts_link_upsert on an *)
(* FTS5 table raises OperationalError ("UPSERT not implemented for virtual *)
(* table"), as it does when the table does not exist.  The value is the    *)
(* index table after the statement.                                        *)
(***************************************************************************)
VirtualTableUpsert(table, rowid, row) == table

\* fts_upsert: the OperationalError is caught and ignored
fts_upsert(d, rowid, content, context, tags, user_scope) ==
    [d EXCEPT !.memories_fts =
        VirtualTableUpsert(d.memories_fts, rowid,
            [content |-> content, context |-> IfNull(context),
             tags |-> IfNull(tags), user_scope |-> user_scope])]

\* fts_delete: DELETE FROM memories_fts WHERE rowid = ?
fts_delete(d, rowid) ==
    IF ~d.fts5 THEN d
    ELSE [d EXCEPT !.memories_fts = Without(d.memories_fts, {rowid})]

(***************************************************************************)
(* memory/tools.py.  A handler's value is the database after the call, the *)
(* result returned and whether an exception was raised instead.            *)
(***************************************************************************)
Returned(d, result) == [db |-> d, raised |-> FALSE, result |-> result]
Raised(d, what) == [db |-> d, raised |-> TRUE, result |-> [error |-> what]]

\* ",".join(tags) if tags else None
TagsColumn(tags) == IF TruthyList(tags) THEN Join(tags, <<",">>) ELSE Null

\* r["tags"].split(",") if r["tags"] else []
TagsList(column) == IF Truthy(column) THEN Split(column, ",") ELSE << >>

\* id INTEGER PRIMARY KEY without AUTOINCREMENT: one more than the largest rowid present
StoreReusesRowid(d, t, user_scope, content, tags, context) ==
    IF ValidationFails(content, tags, context) THEN Raised(d, "ValueError")
    ELSE IF content = Null THEN Raised(d, "IntegrityError")
    ELSE LET memory_id == IF DOMAIN d.memories = {} THEN 1
                          ELSE Descending(DOMAIN d.memories)[1] + 1
             row == [user_scope |-> user_scope,
                     content |-> content,
                     context |-> IF Truthy(context) THEN context ELSE Null,
                     tags |-> TagsColumn(tags),
                     created_at |-> t,
                     updated_at |-> t]
             inserted == [d EXCEPT !.memories = Put(@, memory_id, row),
                                   !.memories_seq = memory_id]
         IN  Returned(fts_upsert(inserted, memory_id, content, context,
                                 TagsColumn(tags), user_scope),
                      [id |-> memory_id])

tool_memory_store(d, t, user_scope, content, tags, context) ==
    IF ValidationFails(content, tags, context) THEN Raised(d, "ValueError")
    ELSE IF content = Null THEN Raised(d, "IntegrityError")
    ELSE LET memory_id == d.memories_seq + 1
             row == [user_scope |-> user_scope,
                     content |-> content,
                     context |-> IF Truthy(context) THEN context ELSE Null,
                     tags |-> TagsColumn(tags),
                     created_at |-> t,
                     updated_at |-> t]
             inserted == [d EXCEPT !.memories = Put(@, memory_id, row),
                                   !.memories_seq = memory_id]
         IN  Returned(fts_upsert(inserted, memory_id, content, context,
                                 TagsColumn(tags), user_scope),
                      [id |-> memory_id])

\* the ids of the rows of a table that the predicate keeps
Where(table, Keep(_, _)) == {id \in DOMAIN table : Keep(id, table[id])}

MemoryDict(id, row) ==
    [id |-> id, content |-> row.content, context |-> row.context,
     tags |-> TagsList(row.tags),
     created_at |-> row.created_at, updated_at |-> row.updated_at]

MemoryItems(d, ids) == [i \in 1..Len(ids) |-> MemoryDict(ids[i], d.memories[ids[i]])]

\* ORDER BY id, the oldest record first
ListOldestFirst(d, user_scope, limit, offset) ==
    LET Mine(id, row) == row.user_scope = user_scope
        desc == Descending(Where(d.memories, Mine))
        asc == [i \in 1..Len(desc) |-> desc[Len(desc) + 1 - i]]
        ids == LimitOffset(asc, limit, offset)
    IN  Returned(d, [items |-> MemoryItems(d, ids)])

tool_memory_list(d, user_scope, limit, offset) ==
    LET Mine(id, row) == row.user_scope = user_scope
        ids == LimitOffset(Descending(Where(d.memories, Mine)), limit, offset)
    IN  Returned(d, [items |-> MemoryItems(d, ids)])

\* DELETE FROM memories WHERE id = ?, the scope not asked
DeleteAnyScope(d, user_scope, memory_id) ==
    LET Hit(id, row) == id = memory_id
        hit == Where(d.memories, Hit)
        deleted == Cardinality(hit)
        base == [d EXCEPT !.memories = Without(@, hit)]
    IN  Returned(IF deleted # 0 THEN fts_delete(base, memory_id) ELSE base,
                 [deleted |-> deleted])

tool_memory_delete(d, user_scope, memory_id) ==
    LET Hit(id, row) == id = memory_id /\ row.user_scope = user_scope
        hit == Where(d.memories, Hit)
        deleted == Cardinality(hit)
        base == [d EXCEPT !.memories = Without(@, hit)]
    IN  Returned(IF deleted # 0 THEN fts_delete(base, memory_id) ELSE base,
                 [deleted |-> deleted])

\* the time of the update written to created_at
UpdateStampsCreatedAt(d, t, user_scope, memory_id, content, tags, context) ==
    IF ValidationFails(content, tags, context) THEN Raised(d, "ValueError")
    ELSE LET Hit(id, row) == id = memory_id /\ row.user_scope = user_scope
             hit == Where(d.memories, Hit)
             updated == Cardinality(hit)
             Set(row) ==
                 [row EXCEPT
                    !.content = IF content # Null THEN content ELSE @,
                    !.context = IF context # Null THEN context ELSE @,
                    !.tags = IF tags # NoList THEN TagsColumn(tags) ELSE @,
                    !.created_at = t]
             base == [d EXCEPT !.memories =
                        [id \in DOMAIN @ |-> IF id \in hit THEN Set(@[id]) ELSE @[id]]]
         IN  IF updated # 0
             THEN LET row == base.memories[memory_id]
                  IN  Returned(fts_upsert(base, memory_id, row.content, row.context,
                                          row.tags, user_scope),
                               [updated |-> updated])
             ELSE Returned(base, [updated |-> updated])

\* an UPDATE that sets context and tags whether they were supplied or not
UpdateWritesAllFields(d, t, user_scope, memory_id, content, tags, context) ==
    IF ValidationFails(content, tags, context) THEN Raised(d, "ValueError")
    ELSE LET Hit(id, row) == id = memory_id /\ row.user_scope = user_scope
             hit == Where(d.memories, Hit)
             updated == Cardinality(hit)
             Set(row) ==
                 [row EXCEPT
                    !.content = IF content # Null THEN content ELSE @,
                    !.context = context,
                    !.tags = TagsColumn(tags),
                    !.updated_at = t]
             base == [d EXCEPT !.memories =
                        [id \in DOMAIN @ |-> IF id \in hit THEN Set(@[id]) ELSE @[id]]]
         IN  IF updated # 0
             THEN LET row == base.memories[memory_id]
                  IN  Returned(fts_upsert(base, memory_id, row.content, row.context,
                                          row.tags, user_scope),
                               [updated |-> updated])
             ELSE Returned(base, [updated |-> updated])

tool_memory_update(d, t, user_scope, memory_id, content, tags, context) ==
    IF ValidationFails(content, tags, context) THEN Raised(d, "ValueError")
    ELSE LET Hit(id, row) == id = memory_id /\ row.user_scope = user_scope
             hit == Where(d.memories, Hit)
             updated == Cardinality(hit)
             Set(row) ==
                 [row EXCEPT
                    !.content = IF content # Null THEN content ELSE @,
                    !.context = IF context # Null THEN context ELSE @,
                    !.tags = IF tags # NoList THEN TagsColumn(tags) ELSE @,
                    !.updated_at = t]
             base == [d EXCEPT !.memories =
                        [id \in DOMAIN @ |-> IF id \in hit THEN Set(@[id]) ELSE @[id]]]
         IN  IF updated # 0
             THEN LET row == base.memories[memory_id]
                  IN  Returned(fts_upsert(base, memory_id, row.content, row.context,
                                          row.tags, user_scope),
                               [updated |-> updated])
             ELSE Returned(base, [updated |-> updated])

(***************************************************************************)
(* Wall-clock time (datetime.utcnow) is counted in ticks of 1/TicksPerDay  *)
(* day; an ISO-8601 timestamp is the tick it names, and the string         *)
(* comparisons of SQL on timestamps are comparisons of ticks.              *)
(***************************************************************************)
TicksPerDay == 2

\* a NULL timestamp
NoTime == 0 - 1

\* dt.replace(hour=0, minute=0, second=0, microsecond=0)
Midnight(t) == t - (t % TicksPerDay)

\* substr(created_at, 1, 10)
DayOf(t) == t \div TicksPerDay

LastWeekHint == <<"l", "a", "s", "t", " ", "w", "e", "e", "k">>
YesterdayHint == <<"y", "e", "s", "t", "e", "r", "d", "a", "y">>
TodayHint == <<"t", "o", "d", "a", "y">>

NoRange == [none |-> TRUE, start |-> 0, end |-> 0]

\* a parser that looks for "today" first and for "last week" last
ParseTodayFirst(query, t) ==
    LET q == Lower(query)
    IN  IF Contains(q, TodayHint)
        THEN [none |-> FALSE, start |-> Midnight(t), end |-> Midnight(t) + TicksPerDay]
        ELSE IF Contains(q, YesterdayHint)
        THEN [none |-> FALSE, start |-> Midnight(t - TicksPerDay),
              end |-> Midnight(t - TicksPerDay) + TicksPerDay]
        ELSE IF Contains(q, LastWeekHint)
        THEN [none |-> FALSE, start |-> t - 7 * TicksPerDay, end |-> t]
        ELSE NoRange

\* _parse_time_hints(query) at time t
ParseTimeHints(query, t) ==
    LET q == Lower(query)
    IN  IF Contains(q, LastWeekHint)
        THEN [none |-> FALSE, start |-> t - 7 * TicksPerDay, end |-> t]
        ELSE IF Contains(q, YesterdayHint)
        THEN [none |-> FALSE, start |-> Midnight(t - TicksPerDay),
              end |-> Midnight(t - TicksPerDay) + TicksPerDay]
        ELSE IF Contains(q, TodayHint)
        THEN [none |-> FALSE, start |-> Midnight(t), end |-> Midnight(t) + TicksPerDay]
        ELSE NoRange

\* created_at BETWEEN start AND end, when a time hint applies
InRange(range, created_at) ==
    range.none \/ (range.start <= created_at /\ created_at <= range.end)

\* the index path of a query is taken: the index exists and accepts the query
UsedFts(d, query) == d.fts5 /\ FtsQueryOk(query)

MemoryFtsColumns(f) == <<f.content, f.context, f.tags, f.user_scope>>

\* the query without the except clause: the OperationalError of the index path is raised
QueryNoFallback(d, t, user_scope, query, limit) ==
    IF query = Null THEN Raised(d, "AttributeError")
    ELSE IF ~UsedFts(d, query) THEN Raised(d, "OperationalError")
    ELSE LET range == ParseTimeHints(query, t)
             Indexed(id, row) ==
                 /\ id \in DOMAIN d.memories_fts
                 /\ row.user_scope = user_scope
                 /\ InRange(range, row.created_at)
                 /\ FtsMatch(MemoryFtsColumns(d.memories_fts[id]), query)
             found == Where(d.memories, Indexed)
         IN  Returned(d, [items |-> MemoryItems(d, LimitOffset(Descending(found), limit, 0))])

\* the query whose index path reads the index alone, without the join on memories
QueryIndexNoJoin(d, t, user_scope, query, limit) ==
    IF query = Null THEN Raised(d, "AttributeError")
    ELSE LET range == ParseTimeHints(query, t)
             Scanned(id, row) ==
                 /\ row.user_scope = user_scope
                 /\ InRange(range, row.created_at)
                 /\ \/ Like(row.content, query)
                    \/ Like(IfNull(row.context), query)
                    \/ Like(IfNull(row.tags), query)
             Matched(id, f) ==
                 /\ f.user_scope = user_scope
                 /\ FtsMatch(MemoryFtsColumns(f), query)
             hits == LimitOffset(Descending(Where(d.memories_fts, Matched)), limit, 0)
             scanned == LimitOffset(Descending(Where(d.memories, Scanned)), limit, 0)
         IN  IF UsedFts(d, query)
             THEN Returned(d, [items |-> [i \in 1..Len(hits) |->
                     [id |-> hits[i],
                      content |-> d.memories_fts[hits[i]].content,
                      context |-> d.memories_fts[hits[i]].context,
                      tags |-> TagsList(d.memories_fts[hits[i]].tags),
                      created_at |-> NoTime, updated_at |-> NoTime]]])
             ELSE Returned(d, [items |-> MemoryItems(d, scanned)])

\* the query whose index path joins the base table without the scope condition
QueryIndexAnyScope(d, t, user_scope, query, limit) ==
    IF query = Null THEN Raised(d, "AttributeError")
    ELSE LET range == ParseTimeHints(query, t)
             Indexed(id, row) ==
                 /\ id \in DOMAIN d.memories_fts
                 /\ InRange(range, row.created_at)
                 /\ FtsMatch(MemoryFtsColumns(d.memories_fts[id]), query)
             Scanned(id, row) ==
                 /\ row.user_scope = user_scope
                 /\ InRange(range, row.created_at)
                 /\ \/ Like(row.content, query)
                    \/ Like(IfNull(row.context), query)
                    \/ Like(IfNull(row.tags), query)
             found == IF UsedFts(d, query) THEN Where(d.memories, Indexed)
                      ELSE Where(d.memories, Scanned)
         IN  Returned(d, [items |-> MemoryItems(d, LimitOffset(Descending(found), limit, 0))])

tool_memory_query(d, t, user_scope, query, limit) ==
    IF query = Null THEN Raised(d, "AttributeError")
    ELSE LET range == ParseTimeHints(query, t)
             Indexed(id, row) ==
                 /\ id \in DOMAIN d.memories_fts
                 /\ row.user_scope = user_scope
                 /\ InRange(range, row.created_at)
                 /\ FtsMatch(MemoryFtsColumns(d.memories_fts[id]), query)
             Scanned(id, row) ==
                 /\ row.user_scope = user_scope
                 /\ InRange(range, row.created_at)
                 /\ \/ Like(row.content, query)
                    \/ Like(IfNull(row.context), query)
                    \/ Like(IfNull(row.tags), query)
             found == IF UsedFts(d, query) THEN Where(d.memories, Indexed)
                      ELSE Where(d.memories, Scanned)
         IN  Returned(d, [items |-> MemoryItems(d, LimitOffset(Descending(found), limit, 0))])

\* json.dumps of the exported list is an encoding of the list, kept as the list
tool_memory_export(d, user_scope) ==
    LET Mine(id, row) == row.user_scope = user_scope
        desc == Descending(Where(d.memories, Mine))
        asc == [i \in 1..Len(desc) |-> desc[Len(desc) + 1 - i]]
    IN  Returned(d, [json |-> MemoryItems(d, asc)])

tool_memory_stats(d, user_scope) ==
    LET Mine(id, row) == row.user_scope = user_scope
        mine == Where(d.memories, Mine)
        days == Descending({DayOf(d.memories[id].created_at) : id \in mine})
        per_day == [i \in 1..Len(days) |->
                      [day |-> days[i],
                       count |-> Cardinality({id \in mine :
                                    DayOf(d.memories[id].created_at) = days[i]})]]
    IN  Returned(d, [total |-> Cardinality(mine), per_day |-> LimitOffset(per_day, 7, 0)])

tool_memory_context(d, user_scope, context, limit) ==
    LET Hit(id, row) ==
            /\ row.user_scope = user_scope
            /\ (Like(IfNull(row.context), context) \/ Like(IfNull(row.tags), context))
    IN  Returned(d, [items |->
            MemoryItems(d, LimitOffset(Descending(Where(d.memories, Hit)), limit, 0))])

RECURSIVE Flatten(_)
Flatten(lists) == IF lists = << >> THEN << >> ELSE lists[1] \o Flatten(Tail(lists))

\* the elements of a sequence that the predicate keeps, in order
Filter(seq, Keep(_)) ==
    LET F[i \in 0..Len(seq)] ==
            IF i = 0 THEN << >>
            ELSE IF Keep(seq[i]) THEN Append(F[i - 1], seq[i]) ELSE F[i - 1]
    IN  F[Len(seq)]

(***************************************************************************)
(* The tag counts of tool_memory_summary: a dict filled in the order the   *)
(* tags are met, then sorted(..., key=count, reverse=True), which is       *)
(* stable, cut to five.                                                    *)
(***************************************************************************)
TopTags(taglists) ==
    LET NonEmpty(tag) == tag # << >>
        all == Filter(Flatten(taglists), NonEmpty)
        First(tag) == CHOOSE i \in 1..Len(all) :
                          all[i] = tag /\ \A j \in 1..(i - 1) : all[j] # tag
        Count(tag) == Cardinality({i \in 1..Len(all) : all[i] = tag})
        distinct == {all[i] : i \in 1..Len(all)}
        Before(x, y) == \/ Count(x) > Count(y)
                        \/ Count(x) = Count(y) /\ First(x) < First(y)
        Rank(tag) == Cardinality({x \in distinct : Before(x, tag)}) + 1
        sorted == [i \in 1..Cardinality(distinct) |->
                     LET tag == CHOOSE x \in distinct : Rank(x) = i
                     IN  [tag |-> tag, count |-> Count(tag)]]
    IN  LimitOffset(sorted, 5, 0)

tool_memory_summary(d, t, user_scope, range_hint) ==
    LET start == IF range_hint = TodayHint THEN Midnight(t)
                 ELSE IF range_hint = YesterdayHint THEN Midnight(t - TicksPerDay)
                 ELSE t - 7 * TicksPerDay
        Recent(id, row) == row.user_scope = user_scope /\ row.created_at >= start
        ids == LimitOffset(Descending(Where(d.memories, Recent)), 100, 0)
    IN  Returned(d,
            [count |-> Len(ids),
             top_tags |-> TopTags([i \in 1..Len(ids) |-> TagsList(d.memories[ids[i]].tags)]),
             highlights |-> [i \in 1..Min(Len(ids), 5) |-> d.memories[ids[i]].content]])

(***************************************************************************)
(* linkbrain/parsing.py                                                    *)
(***************************************************************************)
RECURSIVE count_words(_)
\* len(re.findall(r"\w+", text))
count_words(text) ==
    IF text = << >> THEN 0
    ELSE IF IsSeparator(text[1]) THEN count_words(Tail(text))
    ELSE LET n == CHOOSE j \in 1..Len(text) :
                      /\ \A k \in 1..j : ~IsSeparator(text[k])
                      /\ (j = Len(text) \/ IsSeparator(text[j + 1]))
         IN  1 + count_words(SubSeq(text, n + 1, Len(text)))

\* max(1, math.ceil(word_count / 200))
estimate_reading_minutes(word_count) == Max(1, (word_count + 199) \div 200)

\* ",".join([t.strip() for t in tags if t and t.strip()]) or None
tags_to_str(tags) ==
    IF ~TruthyList(tags) THEN Null
    ELSE LET NonBlank(tag) == Strip(tag) # << >>
             kept == Filter(tags, NonBlank)
             joined == Join([i \in 1..Len(kept) |-> Strip(kept[i])], <<",">>)
         IN  IF joined = << >> THEN Null ELSE joined

(***************************************************************************)
(* linkbrain/repository.py                                                 *)
(***************************************************************************)
LinkFtsRow(row) ==
    [title |-> IfNull(row.title), byline |-> IfNull(row.byline),
     site_name |-> IfNull(row.site_name), tags |-> IfNull(row.tags),
     content |-> IfNull(row.content), user_scope |-> row.user_scope]

\* init_link_db: the links table, and where FTS5 exists its index and the backfill
init_link_db(d) ==
    IF ~d.fts5 THEN d
    ELSE [d EXCEPT !.links_fts =
            [id \in DOMAIN d.links \cup DOMAIN d.links_fts |->
                IF id \in DOMAIN d.links_fts THEN d.links_fts[id]
                ELSE LinkFtsRow(d.links[id])]]

\* fts_link_upsert: the OperationalError is caught and ignored
fts_link_upsert(d, rowid, title, byline, site_name, tags, content, user_scope) ==
    [d EXCEPT !.links_fts =
        VirtualTableUpsert(d.links_fts, rowid,
            [title |-> IfNull(title), byline |-> IfNull(byline),
             site_name |-> IfNull(site_name), tags |-> IfNull(tags),
             content |-> IfNull(content), user_scope |-> user_scope])]

\* fts_link_delete: DELETE FROM links_fts WHERE rowid = ?
fts_link_delete(d, rowid) ==
    IF ~d.fts5 THEN d
    ELSE [d EXCEPT !.links_fts = Without(d.links_fts, {rowid})]

(***************************************************************************)
(* linkbrain/tools.py.  fetch_html and extract_readable_fields are the     *)
(* outside world: a call is given the page it fetches, FetchFails when     *)
(* fetch_html raises.                                                      *)
(***************************************************************************)
FetchFails == [failed |-> TRUE]

Page(title, byline, site_name, content) ==
    [failed |-> FALSE, title |-> title, byline |-> byline,
     site_name |-> site_name, content |-> content]

\* the row of (user_scope, url), if any
LinkIds(d, user_scope, url) ==
    {id \in DOMAIN d.links : d.links[id].user_scope = user_scope /\ d.links[id].url = url}

\* INSERT OR REPLACE INTO links: the row of the pair is deleted and a new one inserted
ReplaceLink(d, new) ==
    LET hit == LinkIds(d, new.user_scope, new.url)
        next == d.links_seq + 1
    IN  [d EXCEPT !.links = Put(Without(@, hit), next, new), !.links_seq = next]

\* INSERT INTO links into a table without UNIQUE(user_scope, url): always a new row
InsertLink(d, new) ==
    [d EXCEPT !.links = Put(@, d.links_seq + 1, new), !.links_seq = d.links_seq + 1]

(***************************************************************************)
(* INSERT INTO links ... ON CONFLICT(user_scope, url) DO UPDATE SET ...:   *)
(* one statement.  A new row takes the next id; on a conflict the row of   *)
(* the pair keeps its id, created_at and summary.  The AUTOINCREMENT       *)
(* counter advances in both cases.                                         *)
(***************************************************************************)
UpsertLink(d, new) ==
    LET hit == LinkIds(d, new.user_scope, new.url)
        next == d.links_seq + 1
    IN  IF hit = {}
        THEN [d EXCEPT !.links = Put(@, next, new), !.links_seq = next]
        ELSE [d EXCEPT
                !.links = [id \in DOMAIN @ |->
                    IF id \in hit
                    THEN [@[id] EXCEPT
                            !.title = new.title, !.byline = new.byline,
                            !.site_name = new.site_name, !.tags = new.tags,
                            !.content = new.content, !.word_count = new.word_count,
                            !.reading_minutes = new.reading_minutes,
                            !.updated_at = new.updated_at]
                    ELSE @[id]],
                !.links_seq = next]

\* the values tool_link_save binds to its INSERT
NewLink(t, user_scope, url, tags, title_hint, page) ==
    LET content == IF Truthy(page.content) THEN page.content ELSE << >>
    IN  [user_scope |-> user_scope, url |-> url,
         title |-> IF Truthy(title_hint) THEN title_hint ELSE page.title,
         byline |-> page.byline, site_name |-> page.site_name,
         tags |-> tags_to_str(tags), content |-> content,
         word_count |-> count_words(content),
         reading_minutes |-> estimate_reading_minutes(count_words(content)),
         created_at |-> t, updated_at |-> t,
         summary |-> Null, summary_updated_at |-> NoTime]

\* the dict tool_link_save returns; id is None (0) when its SELECT found no row
SavedLink(id, new) ==
    [id |-> id, url |-> new.url, title |-> new.title, byline |-> new.byline,
     site_name |-> new.site_name, word_count |-> new.word_count,
     reading_minutes |-> new.reading_minutes]

\* a link_save that fetches again when its fetch failed, and finds the page then
LinkSaveRetrying(d, t, user_scope, url, tags, title_hint, page) ==
    IF ~Truthy(url) THEN Raised(d, "ValueError")
    ELSE LET found == IF page.failed THEN Page(<<"a">>, Null, Null, <<"a", " ", "b">>)
                      ELSE page
             new == NewLink(t, user_scope, url, tags, title_hint, found)
             saved == UpsertLink(d, new)
             id == CHOOSE i \in LinkIds(saved, user_scope, url) : TRUE
         IN  Returned(fts_link_upsert(saved, id, new.title, new.byline, new.site_name,
                                      new.tags, new.content, user_scope),
                      SavedLink(id, new))

tool_link_save(d, t, user_scope, url, tags, title_hint, page) ==
    IF ~Truthy(url) THEN Raised(d, "ValueError")
    ELSE IF page.failed THEN Raised(d, "HTTPError")
    ELSE LET new == NewLink(t, user_scope, url, tags, title_hint, page)
             saved == UpsertLink(d, new)
             id == CHOOSE i \in LinkIds(saved, user_scope, url) : TRUE
         IN  Returned(fts_link_upsert(saved, id, new.title, new.byline, new.site_name,
                                      new.tags, new.content, user_scope),
                      SavedLink(id, new))

tool_link_fetch(d, user_scope, url) ==
    LET hit == LinkIds(d, user_scope, url)
    IN  IF hit = {} THEN Returned(d, [found |-> FALSE])
        ELSE LET id == CHOOSE i \in hit : TRUE
                 row == d.links[id]
             IN  Returned(d,
                    [found |-> TRUE, id |-> id, url |-> row.url, title |-> row.title,
                     byline |-> row.byline, site_name |-> row.site_name,
                     tags |-> TagsList(row.tags), content |-> row.content,
                     word_count |-> row.word_count,
                     reading_minutes |-> row.reading_minutes,
                     created_at |-> row.created_at, updated_at |-> row.updated_at,
                     summary |-> row.summary,
                     summary_updated_at |-> row.summary_updated_at])

LinkDict(id, row) ==
    [id |-> id, url |-> row.url, title |-> row.title, byline |-> row.byline,
     site_name |-> row.site_name, tags |-> TagsList(row.tags),
     word_count |-> row.word_count, reading_minutes |-> row.reading_minutes,
     created_at |-> row.created_at, updated_at |-> row.updated_at]

LinkItems(d, ids) == [i \in 1..Len(ids) |-> LinkDict(ids[i], d.links[ids[i]])]

tool_link_list(d, user_scope, limit, offset, tag) ==
    LET Hit(id, row) ==
            /\ row.user_scope = user_scope
            /\ Truthy(tag) => Like(IfNull(row.tags), tag)
    IN  Returned(d, [items |->
            LinkItems(d, LimitOffset(Descending(Where(d.links, Hit)), limit, offset))])

LinkFtsColumns(f) == <<f.title, f.byline, f.site_name, f.tags, f.content, f.user_scope>>

tool_link_query(d, user_scope, query, limit) ==
    LET Indexed(id, row) ==
            /\ id \in DOMAIN d.links_fts
            /\ row.user_scope = user_scope
            /\ FtsMatch(LinkFtsColumns(d.links_fts[id]), query)
        Scanned(id, row) ==
            /\ row.user_scope = user_scope
            /\ \/ Like(IfNull(row.title), query)
               \/ Like(IfNull(row.byline), query)
               \/ Like(IfNull(row.site_name), query)
               \/ Like(IfNull(row.tags), query)
               \/ Like(IfNull(row.content), query)
        found == IF UsedFts(d, query) THEN Where(d.links, Indexed)
                 ELSE Where(d.links, Scanned)
    IN  Returned(d, [items |-> LinkItems(d, LimitOffset(Descending(found), limit, 0))])

tool_link_delete(d, user_scope, link_id) ==
    LET Hit(id, row) == id = link_id /\ row.user_scope = user_scope
        hit == Where(d.links, Hit)
        deleted == Cardinality(hit)
        base == [d EXCEPT !.links = Without(@, hit)]
    IN  Returned(IF deleted # 0 THEN fts_link_delete(base, link_id) ELSE base,
                 [deleted |-> deleted])

tool_link_store_summary(d, t, user_scope, url, summary_text) ==
    IF ~Truthy(summary_text) \/ Strip(summary_text) = << >>
    THEN Returned(d, [saved |-> 0])
    ELSE LET hit == LinkIds(d, user_scope, url)
         IN  Returned([d EXCEPT !.links = [id \in DOMAIN @ |->
                          IF id \in hit
                          THEN [@[id] EXCEPT !.summary = Strip(summary_text),
                                             !.summary_updated_at = t]
                          ELSE @[id]]],
                      [saved |-> Cardinality(hit)])

tool_link_get_summary(d, user_scope, url) ==
    LET hit == LinkIds(d, user_scope, url)
    IN  IF hit = {} THEN Returned(d, [found |-> FALSE])
        ELSE LET id == CHOOSE i \in hit : TRUE
                 row == d.links[id]
             IN  Returned(d,
                    [found |-> TRUE, id |-> id, url |-> row.url, title |-> row.title,
                     byline |-> row.byline, site_name |-> row.site_name,
                     summary |-> row.summary,
                     summary_updated_at |-> row.summary_updated_at])

(***************************************************************************)
(* The tool handlers called one at a time on one database file, each call  *)
(* by some scope with arguments from small sets.  A run calls the tools    *)
(* of memory/ or those of linkbrain/: the two sets share no table.         *)
(*                                                                         *)
(* solo[s] is the database file of the run in which only scope s made its  *)
(* calls (same arguments, same times, same restarts) and every other       *)
(* scope made none; idmap[s] gives, for each id the main run returned to   *)
(* s, the id the solo run returned for the same call.                      *)
(***************************************************************************)
MaxRows == 2

\* startup: init_db() then init_link_db()
InitDatabase(d) == init_link_db(init_db(d))

InitStore ==
    /\ InitLimiter
    /\ InitLoop
    /\ InitIdle
    /\ domain \in {"memory", "link"}
    /\ \E fts5 \in BOOLEAN :
          /\ db = InitDatabase(EmptyDb(fts5))
          /\ solo = [s \in Scopes |-> InitDatabase(EmptyDb(fts5))]
    /\ idmap = [s \in Scopes |-> NoIds]
    /\ utc = 0
    /\ last = NoCall

Call(tool, user_scope, args, out, own, ids) ==
    /\ db' = out.db
    /\ solo' = [solo EXCEPT ![user_scope] = own.db]
    /\ idmap' = [idmap EXCEPT ![user_scope] = ids]
    /\ last' = [tool |-> tool, user_scope |-> user_scope, args |-> args,
                raised |-> out.raised, result |-> out.result]
    /\ UNCHANGED <<limiterVars, loopVars, ioVars, utc, domain>>

Contents == {<<"a">>, <<"b">>}
TagLists == {NoList, << <<"a">> >>}
Edits == { [content |-> <<"b">>, tags |-> NoList, context |-> Null],
           [content |-> Null, tags |-> << <<"b">> >>, context |-> <<"a">>],
           [content |-> <<" ">>, tags |-> NoList, context |-> Null] }
Windows == { [limit |-> 20, offset |-> 0], [limit |-> 1, offset |-> 1] }
Queries == {<<"a">>, <<"b">>, <<"a", ",">>}

MemoryStore(s, content, tags) ==
    /\ domain = "memory"
    /\ db.memories_seq < MaxRows
    /\ \E out \in {tool_memory_store(db, utc, s, content, tags, Null)},
          own \in {tool_memory_store(solo[s], utc, s, content, tags, Null)} :
          Call("memory_store", s, [content |-> content, tags |-> tags], out, own,
               IF out.raised THEN idmap[s]
               ELSE [idmap[s] EXCEPT !.memories = Put(@, out.result.id, own.result.id)])

\* a handler called with an id: the solo run is called with the id it gave the record
OwnId(ids, id) == IF id \in DOMAIN ids THEN ids[id] ELSE 0

MemoryUpdate(s, id, edit) ==
    /\ domain = "memory"
    /\ \E out \in {tool_memory_update(db, utc, s, id, edit.content, edit.tags,
                                       edit.context)},
          own \in {tool_memory_update(solo[s], utc, s, OwnId(idmap[s].memories, id),
                                       edit.content, edit.tags, edit.context)} :
          Call("memory_update", s, [id |-> id, edit |-> edit], out, own, idmap[s])

MemoryDelete(s, id) ==
    /\ domain = "memory"
    /\ \E out \in {tool_memory_delete(db, s, id)},
          own \in {tool_memory_delete(solo[s], s, OwnId(idmap[s].memories, id))} :
          Call("memory_delete", s, [id |-> id], out, own, idmap[s])

\* a handler that writes nothing
Read(tool, s, args, result) ==
    \E out \in {result} :
        /\ out.db = db
        /\ Call(tool, s, args, out, [db |-> solo[s]], idmap[s])

MemoryList(s, w) ==
    /\ domain = "memory"
    /\ Read("memory_list", s, w, tool_memory_list(db, s, w.limit, w.offset))

MemoryQuery(s, q) ==
    /\ domain = "memory"
    /\ Read("memory_query", s, [query |-> q], tool_memory_query(db, utc, s, q, 20))

MemoryExport(s) ==
    /\ domain = "memory"
    /\ Read("memory_export", s, << >>, tool_memory_export(db, s))

MemoryStats(s) ==
    /\ domain = "memory"
    /\ Read("memory_stats", s, << >>, tool_memory_stats(db, s))

MemoryContext(s, c) ==
    /\ domain = "memory"
    /\ Read("memory_context", s, [context |-> c], tool_memory_context(db, s, c, 20))

MemorySummary(s, range_hint) ==
    /\ domain = "memory"
    /\ Read("memory_summary", s, [range |-> range_hint],
            tool_memory_summary(db, utc, s, range_hint))

Urls == {<<"u">>, <<"v">>}
SavePage == Page(<<"a">>, Null, Null, <<"a", " ", "b">>)
Pages == {FetchFails, SavePage}

LinkSave(s, url, tags, page) ==
    /\ domain = "link"
    /\ db.links_seq < MaxRows
    /\ \E out \in {tool_link_save(db, utc, s, url, tags, Null, page)},
          own \in {tool_link_save(solo[s], utc, s, url, tags, Null, page)} :
          Call("link_save", s, [url |-> url, tags |-> tags, page |-> page], out, own,
               IF out.raised THEN idmap[s]
               ELSE [idmap[s] EXCEPT !.links = Put(@, out.result.id, own.result.id)])

LinkDelete(s, id) ==
    /\ domain = "link"
    /\ \E out \in {tool_link_delete(db, s, id)},
          own \in {tool_link_delete(solo[s], s, OwnId(idmap[s].links, id))} :
          Call("link_delete", s, [id |-> id], out, own, idmap[s])

LinkStoreSummary(s, url, summary_text) ==
    /\ domain = "link"
    /\ \E out \in {tool_link_store_summary(db, utc, s, url, summary_text)},
          own \in {tool_link_store_summary(solo[s], utc, s, url, summary_text)} :
          Call("link_store_summary", s, [url |-> url, summary |-> summary_text],
               out, own, idmap[s])

LinkFetch(s, url) ==
    /\ domain = "link"
    /\ Read("link_fetch", s, [url |-> url], tool_link_fetch(db, s, url))

LinkList(s, w, tag) ==
    /\ domain = "link"
    /\ Read("link_list", s, [window |-> w, tag |-> tag],
            tool_link_list(db, s, w.limit, w.offset, tag))

LinkQuery(s, q) ==
    /\ domain = "link"
    /\ Read("link_query", s, [query |-> q], tool_link_query(db, s, q, 20))

LinkGetSummary(s, url) ==
    /\ domain = "link"
    /\ Read("link_get_summary", s, [url |-> url], tool_link_get_summary(db, s, url))

\* the server process is stopped and started again on the same database file
Restart ==
    /\ db' = InitDatabase(db)
    /\ solo' = [s \in Scopes |-> InitDatabase(solo[s])]
    /\ last' = NoCall
    /\ UNCHANGED <<limiterVars, loopVars, ioVars, utc, domain, idmap>>

NextStore ==
    \/ \E s \in Scopes, content \in Contents : MemoryStore(s, content, NoList)
    \/ \E s \in Scopes, id \in 1..MaxRows, edit \in Edits : MemoryUpdate(s, id, edit)
    \/ \E s \in Scopes, id \in 1..MaxRows : MemoryDelete(s, id)
    \/ \E s \in Scopes, w \in Windows : MemoryList(s, w)
    \/ \E s \in Scopes, q \in Queries : MemoryQuery(s, q)
    \/ \E s \in Scopes : MemoryExport(s)
    \/ \E s \in Scopes : MemoryStats(s)
    \/ \E s \in Scopes : MemoryContext(s, <<"a">>)
    \/ \E s \in Scopes, range_hint \in {TodayHint, LastWeekHint} :
          MemorySummary(s, range_hint)
    \/ \E s \in Scopes, url \in Urls, tags \in TagLists, page \in Pages :
          LinkSave(s, url, tags, page)
    \/ \E s \in Scopes, id \in 1..MaxRows : LinkDelete(s, id)
    \/ \E s \in Scopes, url \in Urls : LinkStoreSummary(s, url, <<"b", " ">>)
    \/ \E s \in Scopes, url \in Urls : LinkFetch(s, url)
    \/ \E s \in Scopes, w \in Windows, tag \in {Null, <<"a">>} : LinkList(s, w, tag)
    \/ \E s \in Scopes, q \in Queries : LinkQuery(s, q)
    \/ \E s \in Scopes, url \in Urls : LinkGetSummary(s, url)
    \/ Restart

SpecStore == InitStore /\ [][NextStore]_vars

(***************************************************************************)
(* The writing handlers called with fields at and past the limits of       *)
(* validation.py: one field at a time is taken away from a call of good    *)
(* fields.                                                                 *)
(***************************************************************************)
Long(n) == [i \in 1..n |-> "x"]
Many(n) == [i \in 1..n |-> <<"t">>]

GoodFields == [content |-> <<"a">>, tags |-> NoList, context |-> Null]

FieldSets ==
    {GoodFields}
    \cup {[GoodFields EXCEPT !.content = c] :
             c \in {Null, <<" ">>, Long(MAX_CONTENT_LEN), Long(MAX_CONTENT_LEN + 1)}}
    \cup {[GoodFields EXCEPT !.context = c] :
             c \in {Long(MAX_CONTEXT_LEN), Long(MAX_CONTEXT_LEN + 1)}}
    \cup {[GoodFields EXCEPT !.tags = l] :
             l \in {Many(MAX_TAGS), Many(MAX_TAGS + 1),
                    <<Long(MAX_TAG_LEN)>>, <<Long(MAX_TAG_LEN + 1)>>}}

MemoryStoreFields(s, fields) ==
    /\ domain = "memory"
    /\ db.memories_seq < MaxRows
    /\ \E out \in {tool_memory_store(db, utc, s, fields.content, fields.tags,
                                      fields.context)},
          own \in {tool_memory_store(solo[s], utc, s, fields.content, fields.tags,
                                      fields.context)} :
          Call("memory_store", s, [edit |-> fields], out, own,
               IF out.raised THEN idmap[s]
               ELSE [idmap[s] EXCEPT !.memories = Put(@, out.result.id, own.result.id)])

NextFields ==
    \/ \E fields \in FieldSets : MemoryStoreFields(<<"a">>, fields)
    \/ \E id \in 1..MaxRows, fields \in FieldSets : MemoryUpdate(<<"a">>, id, fields)
    \/ \E fields \in FieldSets : LinkSave(<<"a">>, <<"u">>, fields.tags, SavePage)

SpecFields == InitStore /\ [][NextFields]_vars

(***************************************************************************)
(* _parse_time_hints on its own: a call is given a query and the time of   *)
(* the wall clock, and ends with a range or with none.                     *)
(***************************************************************************)
MaxNow == 5

UpperChar(c) ==
    IF \E i \in 1..Len(LowerCase) : LowerCase[i] = c
    THEN UpperCase[CHOOSE i \in 1..Len(LowerCase) : LowerCase[i] = c]
    ELSE c
Upper(str) == [i \in 1..Len(str) |-> UpperChar(str[i])]
Capital(str) == <<UpperChar(Head(str))>> \o Tail(str)

HintQueries ==
    { <<"a">>, TodayHint, YesterdayHint, LastWeekHint,
      Capital(TodayHint), Upper(YesterdayHint), Capital(LastWeekHint),
      <<"l", "a", "s", "t", "w", "e", "e", "k">>,
      <<"a", " ">> \o TodayHint \o <<" ">> \o YesterdayHint,
      YesterdayHint \o TodayHint,
      TodayHint \o <<" ">> \o Upper(LastWeekHint),
      LastWeekHint \o <<" ">> \o TodayHint,
      Capital(YesterdayHint) \o <<" ">> \o LastWeekHint,
      LastWeekHint \o <<" ">> \o YesterdayHint,
      TodayHint \o <<" ">> \o YesterdayHint \o <<" ">> \o LastWeekHint }

InitHints ==
    /\ InitLimiter
    /\ InitLoop
    /\ InitIdle
    /\ db = << >>
    /\ domain = None
    /\ solo = << >>
    /\ idmap = << >>
    /\ utc \in 0..MaxNow
    /\ \E query \in HintQueries :
          last = [tool |-> "_parse_time_hints", query |-> query, done |-> FALSE,
                  result |-> NoRange]

ParseHints ==
    /\ ~last.done
    /\ last' = [last EXCEPT !.done = TRUE, !.result = ParseTimeHints(last.query, utc)]
    /\ UNCHANGED <<limiterVars, loopVars, ioVars, db, utc, domain, solo, idmap>>

SpecHints == InitHints /\ [][ParseHints]_vars

(***************************************************************************)
(* The same handlers with the wall clock running between the calls.        *)
(***************************************************************************)
MaxUtc == 2

\* datetime.utcnow() moves on
Advance ==
    /\ utc < MaxUtc
    /\ utc' = utc + 1
    /\ UNCHANGED <<limiterVars, loopVars, ioVars, db, last, domain, solo, idmap>>

NextClock ==
    \/ Advance
    \/ \E s \in Scopes, content \in Contents : MemoryStore(s, content, NoList)
    \/ \E s \in Scopes, id \in 1..MaxRows, edit \in Edits : MemoryUpdate(s, id, edit)
    \/ \E s \in Scopes, url \in Urls, tags \in TagLists, page \in Pages :
          LinkSave(s, url, tags, page)
    \/ \E s \in Scopes, id \in 1..MaxRows : LinkDelete(s, id)
    \/ \E s \in Scopes, url \in Urls : LinkStoreSummary(s, url, <<"b", " ">>)
    \/ \E s \in Scopes, url \in Urls : LinkFetch(s, url)

SpecClock == InitStore /\ [][NextClock]_vars

(***************************************************************************)
(* memory_query with the hints of a day, on records stored as the wall     *)
(* clock goes from one day into the next; the records hold the words of    *)
(* the hints, so that the text of the query finds them.                    *)
(***************************************************************************)
DayContent == TodayHint \o <<" ">> \o YesterdayHint

DayEdit == [content |-> <<"b">>, tags |-> NoList, context |-> Null]
\* no field given: memory_update called with an id only, an idle connection
NoEdit == [content |-> Null, tags |-> NoList, context |-> Null]

NextDays ==
    \/ Advance
    \/ \E s \in Scopes : MemoryStore(s, DayContent, NoList)
    \/ \E s \in Scopes, q \in {TodayHint, YesterdayHint} : MemoryQuery(s, q)
    \/ \E s \in Scopes, id \in 1..MaxRows, edit \in {DayEdit, NoEdit} :
          MemoryUpdate(s, id, edit)
    \/ Restart

SpecDays == InitStore /\ [][NextDays]_vars

(***************************************************************************)
(* Several server processes on one database file, each running one handler *)
(* at a time, statement by statement.  sqlite3 opens a transaction at the  *)
(* first writing statement of a connection and SQLite gives the file's     *)
(* write lock to one connection until its commit; a connection that finds  *)
(* the lock taken waits for it and, past the timeout of sqlite3.connect,   *)
(* raises OperationalError.  The other connections read the committed      *)
(* file.                                                                   *)
(***************************************************************************)
Workers == {"w1", "w2"}
MaxSaves == 2

IdleConn == [pc |-> "idle", user_scope |-> << >>, url |-> << >>, id |-> 0, deleted |-> 0]
FreeJournal == [holder |-> None, db |-> << >>]

InitSave ==
    /\ InitLimiter
    /\ InitLoop
    /\ domain = "link"
    /\ \E fts5 \in BOOLEAN : db = InitDatabase(EmptyDb(fts5))
    /\ solo = << >>
    /\ idmap = << >>
    /\ utc = 0
    /\ last = NoCall
    /\ conns = [p \in Workers |-> IdleConn]
    /\ journal = FreeJournal
    /\ response = NoResponse

SaveRow(c) == NewLink(utc, c.user_scope, c.url, NoList, Null, SavePage)

Ended(p, tool, raised, result) ==
    /\ conns' = [conns EXCEPT ![p] = IdleConn]
    /\ last' = [tool |-> tool, user_scope |-> conns[p].user_scope,
                args |-> [url |-> conns[p].url, id |-> conns[p].id],
                raised |-> raised, result |-> result]

saveFrame == <<limiterVars, loopVars, utc, domain, solo, idmap, response>>

\* tool_link_save up to its INSERT: the page is fetched and parsed
SaveBegin(p, s, url) ==
    /\ conns[p].pc = "idle"
    /\ db.links_seq + Cardinality({q \in Workers : conns[q].pc = "insert"}) < MaxSaves
    /\ conns' = [conns EXCEPT ![p] = [IdleConn EXCEPT !.pc = "insert",
                                                      !.user_scope = s, !.url = url]]
    /\ UNCHANGED <<db, last, journal, saveFrame>>

\* cur.execute(INSERT ... ON CONFLICT ...) with the write lock, or OperationalError
SaveInsert(p) ==
    /\ conns[p].pc = "insert"
    /\ IF journal.holder = None
       THEN /\ journal' = [holder |-> p, db |-> UpsertLink(db, SaveRow(conns[p]))]
            /\ conns' = [conns EXCEPT ![p].pc = "commit"]
            /\ UNCHANGED last
       ELSE /\ Ended(p, "link_save", TRUE, [error |-> "OperationalError"])
            /\ UNCHANGED journal
    /\ UNCHANGED <<db, saveFrame>>

\* conn.commit()
Commit(p, next) ==
    /\ journal.holder = p
    /\ db' = journal.db
    /\ journal' = FreeJournal
    /\ conns' = [conns EXCEPT ![p].pc = next]
    /\ UNCHANGED <<last, saveFrame>>

SaveCommit(p) ==
    /\ conns[p].pc = "commit"
    /\ Commit(p, "select")

\* SELECT id FROM links WHERE user_scope = ? AND url = ?; row = cur.fetchone()
SaveSelect(p) ==
    /\ conns[p].pc = "select"
    /\ LET hit == LinkIds(db, conns[p].user_scope, conns[p].url)
       IN  conns' = [conns EXCEPT ![p].pc = "index",
                                  ![p].id = IF hit = {} THEN 0 ELSE CHOOSE i \in hit : TRUE]
    /\ UNCHANGED <<db, last, journal, saveFrame>>

\* if row: fts_link_upsert(...); return the dict
SaveIndex(p) ==
    /\ conns[p].pc = "index"
    /\ LET new == SaveRow(conns[p])
       IN  /\ db' = IF conns[p].id = 0 THEN db
                    ELSE fts_link_upsert(db, conns[p].id, new.title, new.byline,
                                         new.site_name, new.tags, new.content,
                                         new.user_scope)
           /\ Ended(p, "link_save", FALSE, SavedLink(conns[p].id, new))
    /\ UNCHANGED <<journal, saveFrame>>

\* tool_link_delete: cur.execute(DELETE FROM links WHERE id = ? AND user_scope = ?)
DeleteRow(p, s, id) ==
    /\ conns[p].pc = "idle"
    /\ IF journal.holder = None
       THEN LET Hit(i, row) == i = id /\ row.user_scope = s
                hit == Where(db.links, Hit)
            IN  /\ journal' = [holder |-> p, db |-> [db EXCEPT !.links = Without(@, hit)]]
                /\ conns' = [conns EXCEPT ![p] = [IdleConn EXCEPT
                                !.pc = "delete_commit", !.user_scope = s, !.id = id,
                                !.deleted = Cardinality(hit)]]
                /\ UNCHANGED last
       ELSE /\ last' = [tool |-> "link_delete", user_scope |-> s,
                        args |-> [url |-> << >>, id |-> id],
                        raised |-> TRUE, result |-> [error |-> "OperationalError"]]
            /\ UNCHANGED <<conns, journal>>
    /\ UNCHANGED <<db, saveFrame>>

DeleteCommit(p) ==
    /\ conns[p].pc = "delete_commit"
    /\ Commit(p, "delete_index")

\* if deleted: fts_link_delete(link_id), whose OperationalError is ignored; return
DeleteIndex(p) ==
    /\ conns[p].pc = "delete_index"
    /\ db' = IF conns[p].deleted # 0 /\ journal.holder = None
             THEN fts_link_delete(db, conns[p].id) ELSE db
    /\ Ended(p, "link_delete", FALSE, [deleted |-> conns[p].deleted])
    /\ UNCHANGED <<journal, saveFrame>>

NextSave ==
    \/ \E p \in Workers, s \in Scopes, url \in Urls : SaveBegin(p, s, url)
    \/ \E p \in Workers : SaveInsert(p)
    \/ \E p \in Workers : SaveCommit(p)
    \/ \E p \in Workers : SaveSelect(p)
    \/ \E p \in Workers : SaveIndex(p)
    \/ \E p \in Workers, s \in Scopes, id \in 1..MaxSaves : DeleteRow(p, s, id)
    \/ \E p \in Workers : DeleteCommit(p)
    \/ \E p \in Workers : DeleteIndex(p)

SpecSave == InitSave /\ [][NextSave]_vars

(***************************************************************************)
(* The writers of one record: memory_update and memory_delete (and         *)
(* link_delete) run statement by statement by several server processes on  *)
(* a database file that earlier runs filled and whose index the startup    *)
(* backfill brought up to date.  An idle connection keeps the handler call *)
(* it ran last and how that call ended.                                    *)
(***************************************************************************)
WriteConn(at, tool, s, id, edit) ==
    [pc |-> at, tool |-> tool, user_scope |-> s, url |-> << >>, id |-> id,
     deleted |-> 0, updated |-> 0, edit |-> edit, found |-> FALSE, raised |-> FALSE]

\* the file after one store or save of an earlier run and the restart that followed
Seeded(fts5, tools) ==
    LET empty == InitDatabase(EmptyDb(fts5))
        filled == IF tools = "memory"
                  THEN tool_memory_store(empty, 0, <<"a">>, <<"a">>, NoList, Null).db
                  ELSE tool_link_save(empty, 0, <<"a">>, <<"u">>, NoList, Null,
                                      SavePage).db
    IN  InitDatabase(filled)

InitWrite ==
    /\ InitLimiter
    /\ InitLoop
    /\ domain \in {"memory", "link"}
    /\ \E fts5 \in BOOLEAN : db = Seeded(fts5, domain)
    /\ solo = << >>
    /\ idmap = << >>
    /\ utc = 0
    /\ last = NoCall
    /\ conns = [p \in Workers |-> WriteConn("idle", None, << >>, 0, NoEdit)]
    /\ journal = FreeJournal
    /\ response = NoResponse

\* the handler of connection p returns or raises
WriteEnded(p, tool, s, id, raised, result) ==
    /\ conns' = [conns EXCEPT ![p] =
                    [WriteConn("idle", tool, s, id, NoEdit) EXCEPT !.raised = raised]]
    /\ last' = [tool |-> tool, user_scope |-> s, args |-> [url |-> << >>, id |-> id],
                raised |-> raised, result |-> result]

\* the rows WHERE id = ? AND user_scope = ?
MemoryHit(d, user_scope, memory_id) ==
    {id \in DOMAIN d.memories :
        id = memory_id /\ d.memories[id].user_scope = user_scope}

\* UPDATE memories SET ... WHERE id = ? AND user_scope = ?
UpdateMemories(d, t, user_scope, memory_id, edit) ==
    [d EXCEPT !.memories =
        [id \in DOMAIN @ |->
            IF id \in MemoryHit(d, user_scope, memory_id)
            THEN [@[id] EXCEPT
                    !.content = IF edit.content # Null THEN edit.content ELSE @,
                    !.context = IF edit.context # Null THEN edit.context ELSE @,
                    !.tags = IF edit.tags # NoList THEN TagsColumn(edit.tags) ELSE @,
                    !.updated_at = t]
            ELSE @[id]]]

\* tool_memory_update up to cur.execute(UPDATE ...): with the write lock, or raising
UpdateRow(p, s, id, edit) ==
    /\ domain = "memory"
    /\ conns[p].pc = "idle"
    /\ IF ValidationFails(edit.content, edit.tags, edit.context)
       THEN /\ WriteEnded(p, "memory_update", s, id, TRUE, [error |-> "ValueError"])
            /\ UNCHANGED journal
       ELSE IF journal.holder = None
       THEN /\ journal' = [holder |-> p, db |-> UpdateMemories(db, utc, s, id, edit)]
            /\ conns' = [conns EXCEPT ![p] =
                          [WriteConn("update_commit", "memory_update", s, id, edit)
                              EXCEPT !.updated = Cardinality(MemoryHit(db, s, id))]]
            /\ UNCHANGED last
       ELSE /\ WriteEnded(p, "memory_update", s, id, TRUE,
                          [error |-> "OperationalError"])
            /\ UNCHANGED journal
    /\ UNCHANGED <<db, saveFrame>>

\* updated = cur.rowcount; conn.commit()
UpdateCommit(p) ==
    /\ conns[p].pc = "update_commit"
    /\ Commit(p, "update_select")

\* if updated: SELECT content, context, tags FROM memories WHERE ...; row = fetchone()
UpdateSelect(p) ==
    /\ conns[p].pc = "update_select"
    /\ conns' = [conns EXCEPT
                   ![p].pc = "update_index",
                   ![p].found = /\ conns[p].updated # 0
                                /\ MemoryHit(db, conns[p].user_scope, conns[p].id) # {}]
    /\ UNCHANGED <<db, last, journal, saveFrame>>

\* if row: fts_upsert(memory_id, row...); return {"updated": updated}
UpdateIndex(p) ==
    /\ conns[p].pc = "update_index"
    /\ LET c == conns[p]
           Row == db.memories[c.id]
       IN  /\ db' = IF c.found /\ c.id \in DOMAIN db.memories
                    THEN fts_upsert(db, c.id, Row.content, Row.context, Row.tags,
                                    c.user_scope)
                    ELSE db
           /\ WriteEnded(p, "memory_update", c.user_scope, c.id, FALSE,
                         [updated |-> c.updated])
    /\ UNCHANGED <<journal, saveFrame>>

\* tool_memory_delete: cur.execute(DELETE FROM memories WHERE id = ? AND user_scope = ?)
MemoryDeleteRow(p, s, id) ==
    /\ domain = "memory"
    /\ conns[p].pc = "idle"
    /\ IF journal.holder = None
       THEN /\ journal' = [holder |-> p,
                           db |-> [db EXCEPT !.memories =
                                      Without(@, MemoryHit(db, s, id))]]
            /\ conns' = [conns EXCEPT ![p] =
                          [WriteConn("memory_delete_commit", "memory_delete", s, id,
                                     NoEdit)
                              EXCEPT !.deleted = Cardinality(MemoryHit(db, s, id))]]
            /\ UNCHANGED last
       ELSE /\ WriteEnded(p, "memory_delete", s, id, TRUE,
                          [error |-> "OperationalError"])
            /\ UNCHANGED journal
    /\ UNCHANGED <<db, saveFrame>>

MemoryDeleteCommit(p) ==
    /\ conns[p].pc = "memory_delete_commit"
    /\ Commit(p, "memory_delete_index")

\* if deleted: fts_delete(memory_id), whose OperationalError is ignored; return
MemoryDeleteIndex(p) ==
    /\ conns[p].pc = "memory_delete_index"
    /\ db' = IF conns[p].deleted # 0 /\ journal.holder = None
             THEN fts_delete(db, conns[p].id) ELSE db
    /\ WriteEnded(p, "memory_delete", conns[p].user_scope, conns[p].id, FALSE,
                  [deleted |-> conns[p].deleted])
    /\ UNCHANGED <<journal, saveFrame>>

NextWrite ==
    \/ \E p \in Workers, s \in Scopes, id \in 1..MaxRows, edit \in Edits :
          UpdateRow(p, s, id, edit)
    \/ \E p \in Workers : UpdateCommit(p)
    \/ \E p \in Workers : UpdateSelect(p)
    \/ \E p \in Workers : UpdateIndex(p)
    \/ \E p \in Workers, s \in Scopes, id \in 1..MaxRows : MemoryDeleteRow(p, s, id)
    \/ \E p \in Workers : MemoryDeleteCommit(p)
    \/ \E p \in Workers : MemoryDeleteIndex(p)
    \/ \E p \in Workers, s \in Scopes, id \in 1..MaxRows :
          domain = "link" /\ DeleteRow(p, s, id)
    \/ \E p \in Workers : DeleteCommit(p)
    \/ \E p \in Workers : DeleteIndex(p)

SpecWrite == InitWrite /\ [][NextWrite]_vars

(***************************************************************************)
(* registry.py.  The arguments of a tools/call are a JSON value: an object *)
(* (items: its keys and their values) or a non-empty array, which is       *)
(* truthy and has no get().                                                *)
(***************************************************************************)
TOOLS == {"validate", "memory_store", "memory_query", "memory_list", "memory_update",
          "memory_delete", "memory_suggest", "memory_export", "memory_stats",
          "memory_context", "memory_summary", "link_save", "link_fetch", "link_list",
          "link_query", "link_delete", "link_summarize", "link_store_summary",
          "link_get_summary", "link_digest"}

Object(items) == [kind |-> "object", items |-> items]
Array == [kind |-> "array", items |-> << >>]

\* params.get(key), params.get(key, default)
Get(params, key, default) ==
    IF key \in DOMAIN params.items THEN params.items[key] ELSE default

\* validate.py: tool_validate returns {"phone": USER_PHONE}
tool_validate(d) == Returned(d, [phone |-> "USER_PHONE"])

LastWeekRange == <<"l", "a", "s", "t", "_", "w", "e", "e", "k">>

\* TOOLS[name]["handler"](user, params); int(None) raises TypeError
CallTool(name, d, t, user, params, page) ==
    IF params.kind # "object" THEN Raised(d, "AttributeError")
    ELSE IF name \in {"memory_update", "memory_delete", "link_delete"}
            /\ "id" \notin DOMAIN params.items
    THEN Raised(d, "TypeError")
    ELSE CASE name = "validate" -> tool_validate(d)
           [] name = "memory_store" ->
                tool_memory_store(d, t, user, Get(params, "content", Null),
                                  Get(params, "tags", NoList), Get(params, "context", Null))
           [] name = "memory_query" ->
                tool_memory_query(d, t, user, Get(params, "query", Null),
                                  Get(params, "limit", 20))
           [] name = "memory_list" ->
                tool_memory_list(d, user, Get(params, "limit", 20), Get(params, "offset", 0))
           [] name = "memory_update" ->
                tool_memory_update(d, t, user, params.items["id"],
                                   Get(params, "content", Null), Get(params, "tags", NoList),
                                   Get(params, "context", Null))
           [] name = "memory_delete" -> tool_memory_delete(d, user, params.items["id"])
           [] name = "memory_export" -> tool_memory_export(d, user)
           [] name = "memory_stats" -> tool_memory_stats(d, user)
           [] name = "memory_context" ->
                tool_memory_context(d, user, Get(params, "context", Null),
                                    Get(params, "limit", 20))
           [] name = "memory_summary" ->
                tool_memory_summary(d, t, user, Get(params, "range", LastWeekRange))
           [] name = "link_save" ->
                tool_link_save(d, t, user, Get(params, "url", Null),
                               Get(params, "tags", NoList), Get(params, "title", Null), page)
           [] name = "link_fetch" -> tool_link_fetch(d, user, Get(params, "url", Null))
           [] name = "link_list" ->
                tool_link_list(d, user, Get(params, "limit", 20), Get(params, "offset", 0),
                               Get(params, "tag", Null))
           [] name = "link_query" ->
                tool_link_query(d, user, Get(params, "query", Null), Get(params, "limit", 20))
           [] name = "link_delete" -> tool_link_delete(d, user, params.items["id"])
           [] name = "link_store_summary" ->
                tool_link_store_summary(d, t, user, Get(params, "url", Null),
                                        Get(params, "summary", Null))
           [] name = "link_get_summary" ->
                tool_link_get_summary(d, user, Get(params, "url", Null))

(***************************************************************************)
(* auth.py and utils.py                                                    *)
(***************************************************************************)
AUTH_TOKEN == <<"k">>
BearerPrefix == <<"B", "e", "a", "r", "e", "r", " ">>

StartsWith(str, prefix) ==
    Len(str) >= Len(prefix) /\ SubSeq(str, 1, Len(prefix)) = prefix

\* a check that asks only for the header to be there
AuthFailsIfMissing(authorization) == ~Truthy(authorization)

\* ensure_bearer_auth raises HTTPException(401)
AuthFails(authorization) ==
    \/ ~Truthy(authorization)
    \/ ~StartsWith(authorization, BearerPrefix)
    \/ SubSeq(authorization, Len(BearerPrefix) + 1, Len(authorization)) # AUTH_TOKEN

HeaderGiven(header_user_id) == Truthy(header_user_id) /\ Strip(header_user_id) # << >>

\* get_user_scope(header_user_id, params) raises AttributeError: params has no get()
UserScopeRaises(header_user_id, params) ==
    ~HeaderGiven(header_user_id) /\ params.kind # "object"

\* a JSON value that is no string and not null: a number, true, an array
NotStr == <<"#NotStr">>

\* isinstance(v, str)
IsStr(v) == v \notin {Null, NotStr}

get_user_scope(header_user_id, params) ==
    IF HeaderGiven(header_user_id) THEN Strip(header_user_id)
    ELSE IF /\ "user" \in DOMAIN params.items
            /\ IsStr(params.items["user"])
            /\ Strip(params.items["user"]) # << >>
    THEN Strip(params.items["user"])
    ELSE DefaultUser

(***************************************************************************)
(* get_user_scope on its own: a call is given a header and the arguments   *)
(* of a tools/call, and ends with a scope or with an exception.            *)
(***************************************************************************)
Headers ==
    {Null, << >>, <<" ">>, <<"a">>, <<" ", "a", " ">>, <<"a", " ", "b">>, <<" ", "a">>,
     <<"a", " ">>}
UserValues ==
    {Null, NotStr, << >>, <<" ">>, <<"b">>, <<" ", "b", " ">>, <<"b", " ">>}
ScopeParams ==
    {Array, Object(<< >>)} \cup {Object([user |-> v]) : v \in UserValues}

InitScope ==
    /\ InitLimiter
    /\ InitLoop
    /\ InitIdle
    /\ db = << >>
    /\ utc = 0
    /\ domain = None
    /\ solo = << >>
    /\ idmap = << >>
    /\ \E header_user_id \in Headers, params \in ScopeParams :
          last = [tool |-> "get_user_scope", header |-> header_user_id,
                  params |-> params, done |-> FALSE, raised |-> FALSE, result |-> << >>]

GetUserScope ==
    /\ ~last.done
    /\ last' = IF UserScopeRaises(last.header, last.params)
               THEN [last EXCEPT !.done = TRUE, !.raised = TRUE]
               ELSE [last EXCEPT !.done = TRUE,
                                 !.result = get_user_scope(last.header, last.params)]
    /\ UNCHANGED <<limiterVars, loopVars, ioVars, db, utc, domain, solo, idmap>>

SpecScope == InitScope /\ [][GetUserScope]_vars

(***************************************************************************)
(* jsonrpc.py and app.py.  A request body is bytes that are not JSON       *)
(* (malformed), a JSON value that is not an object, or a JSON object, of   *)
(* which the model keeps the members the endpoint reads.  Absent is the    *)
(* value of a member the object does not have, NotAString a value of       *)
(* another JSON type than string.                                          *)
(***************************************************************************)
Absent == "#absent"
NotAString == "#number"

NoName == [kind |-> "null", value |-> None]
NoParams == [kind |-> "absent", keys |-> {}, name |-> NoName, arguments |-> Object(<< >>)]

\* a model class that accepts every object
EnvelopeNeverInvalid(body) == FALSE

\* JsonRpcRequest(**body) raises ValidationError
EnvelopeInvalid(body) ==
    \/ body.jsonrpc \in {Absent, NotAString}
    \/ body.method \in {Absent, NotAString}
    \/ body.params.kind \notin {"absent", "null", "object"}

\* an id that is never echoed
IdDropped(body) == None

\* body.get("id"), rpc.id
IdOf(body) == IF body.id = Absent THEN None ELSE body.id

\* JSONResponse(status_code, headers={"x-request-id": req_id},
\* content=JsonRpcResponse(id, result, error).model_dump()): result tells whether
\* the result member is not null (every result is a dict with request_id), error
\* is the code of the error member or 0 when that member is null, data whether
\* the error has data.request_id
Envelope(status, id, result, error, data) ==
    [status |-> status, envelope |-> TRUE, jsonrpc |-> "2.0", id |-> id,
     result |-> result, error |-> error, request_id_in_data |-> data,
     message |-> << >>, x_request_id |-> TRUE, request_id_in_result |-> result,
     pong |-> FALSE]

\* a response that FastAPI or the server makes of an exception: no envelope
Plain(status) ==
    [status |-> status, envelope |-> FALSE, jsonrpc |-> None, id |-> None,
     result |-> FALSE, error |-> 0, request_id_in_data |-> FALSE, message |-> << >>,
     x_request_id |-> FALSE, request_id_in_result |-> FALSE, pong |-> FALSE]

\* how a run of the endpoint ends: the limiter and the database after it, the
\* handler call it made, the steps it went through, the response
Outcome(bks, allowed, d, call, steps, resp) ==
    [buckets |-> bks, allowed |-> allowed, db |-> d, call |-> call, steps |-> steps,
     response |-> resp]

\* f"Tool execution error: {str(e)}", for the exception a handler raised
ExecutionError(raised) == <<"Tool execution error: ", raised.error>>

\* rpc.params.get("arguments") or {}
OrEmpty(arguments) == IF arguments.kind = "array" THEN arguments ELSE Object(arguments.items)

\* the branch of tools/call without the check of params: rpc.params["name"] raises
\* KeyError when there is no name, and a call without arguments runs with {}
ToolsCallUnchecked(bks, d, wall, body, x_user_id, page) ==
    LET params == body.params
        steps == <<"auth", "parse", "ratelimit", "route">>
    IN  IF "name" \notin params.keys \/ params.name.kind = "array"
        THEN Outcome(bks, "yes", d, NoCall, steps, Plain(500))
        ELSE IF params.name.kind # "string" \/ params.name.value \notin TOOLS
        THEN Outcome(bks, "yes", d, NoCall, steps,
                     Envelope(404, IdOf(body), FALSE, -32601, TRUE))
        ELSE LET arguments == IF "arguments" \in params.keys
                              THEN OrEmpty(params.arguments) ELSE Object(<< >>)
             IN  IF UserScopeRaises(x_user_id, arguments)
                 THEN Outcome(bks, "yes", d, NoCall, steps, Plain(500))
                 ELSE LET user_scope == get_user_scope(x_user_id, arguments)
                          out == CallTool(params.name.value, d, wall, user_scope,
                                          arguments, page)
                          call == [tool |-> params.name.value, user_scope |-> user_scope,
                                   args |-> arguments, raised |-> out.raised,
                                   result |-> out.result]
                      IN  Outcome(bks, "yes", out.db, call, Append(steps, "handler"),
                                  IF out.raised
                                  THEN [Envelope(500, IdOf(body), FALSE, -32000, TRUE)
                                          EXCEPT !.message = ExecutionError(out.result)]
                                  ELSE Envelope(200, IdOf(body), TRUE, 0, FALSE))

\* the branch of tools/call without the try around the handler: its exception
\* reaches the framework
ToolsCallNoCatch(bks, d, wall, body, x_user_id, page) ==
    LET params == body.params
        steps == <<"auth", "parse", "ratelimit", "route">>
        Done(status, error) ==
            Outcome(bks, "yes", d, NoCall, steps,
                    Envelope(status, IdOf(body), FALSE, error, TRUE))
    IN  IF params.keys = {} \/ "name" \notin params.keys \/ "arguments" \notin params.keys
        THEN Done(400, -32602)
        ELSE IF params.name.kind = "array"
        THEN Outcome(bks, "yes", d, NoCall, steps, Plain(500))
        ELSE IF params.name.kind # "string" \/ params.name.value \notin TOOLS
        THEN Done(404, -32601)
        ELSE LET arguments == OrEmpty(params.arguments)
             IN  IF UserScopeRaises(x_user_id, arguments)
                 THEN Outcome(bks, "yes", d, NoCall, steps, Plain(500))
                 ELSE LET user_scope == get_user_scope(x_user_id, arguments)
                          out == CallTool(params.name.value, d, wall, user_scope,
                                          arguments, page)
                          call == [tool |-> params.name.value, user_scope |-> user_scope,
                                   args |-> arguments, raised |-> out.raised,
                                   result |-> out.result]
                      IN  Outcome(bks, "yes", out.db, call, Append(steps, "handler"),
                                  IF out.raised
                                  THEN Plain(500)
                                  ELSE Envelope(200, IdOf(body), TRUE, 0, FALSE))

\* app.py: the branch of method tools/call, after the limiter let the request through
tools_call(bks, d, wall, body, x_user_id, page) ==
    LET params == body.params
        steps == <<"auth", "parse", "ratelimit", "route">>
        Done(status, error) ==
            Outcome(bks, "yes", d, NoCall, steps,
                    Envelope(status, IdOf(body), FALSE, error, TRUE))
    IN  IF params.keys = {} \/ "name" \notin params.keys \/ "arguments" \notin params.keys
        THEN Done(400, -32602)
        ELSE IF params.name.kind = "array"
        THEN Outcome(bks, "yes", d, NoCall, steps, Plain(500))
        ELSE IF params.name.kind # "string" \/ params.name.value \notin TOOLS
        THEN Done(404, -32601)
        ELSE LET arguments == OrEmpty(params.arguments)
             IN  IF UserScopeRaises(x_user_id, arguments)
                 THEN Outcome(bks, "yes", d, NoCall, steps, Plain(500))
                 ELSE LET user_scope == get_user_scope(x_user_id, arguments)
                          out == CallTool(params.name.value, d, wall, user_scope,
                                          arguments, page)
                          call == [tool |-> params.name.value, user_scope |-> user_scope,
                                   args |-> arguments, raised |-> out.raised,
                                   result |-> out.result]
                      IN  Outcome(bks, "yes", out.db, call, Append(steps, "handler"),
                                  IF out.raised
                                  THEN [Envelope(500, IdOf(body), FALSE, -32000, TRUE)
                                          EXCEPT !.message = ExecutionError(out.result)]
                                  ELSE Envelope(200, IdOf(body), TRUE, 0, FALSE))

\* the endpoint without the try around request.json(): its exception is not caught
EndpointNoParseCatch(bks, d, t, wall, authorization, body, x_user_id, page) ==
    IF AuthFails(authorization)
    THEN Outcome(bks, "unasked", d, NoCall, <<"auth">>, Plain(401))
    ELSE IF body.kind = "malformed"
    THEN Outcome(bks, "unasked", d, NoCall, <<"auth", "parse">>, Plain(500))
    ELSE IF body.kind # "object"
    THEN Outcome(bks, "unasked", d, NoCall, <<"auth", "parse">>, Plain(500))
    ELSE IF EnvelopeInvalid(body) \/ body.jsonrpc # "2.0"
    THEN Outcome(bks, "unasked", d, NoCall, <<"auth", "parse">>,
                 Envelope(400, IdOf(body), FALSE, -32600, TRUE))
    ELSE LET allowed == RateLimiter_allow(bks, LimiterKey(ClientIp, x_user_id), t, Cost)
             Routed(status, result, error) ==
                 Outcome(allowed.buckets, "yes", d, NoCall,
                         <<"auth", "parse", "ratelimit", "route">>,
                         Envelope(status, IdOf(body), result, error, ~result))
         IN  IF ~allowed.ok
             THEN Outcome(allowed.buckets, "no", d, NoCall, <<"auth", "parse", "ratelimit">>,
                          Envelope(429, IdOf(body), FALSE, -32001, FALSE))
             ELSE IF body.method = "tools/list" THEN Routed(200, TRUE, 0)
             ELSE IF body.method = "tools/call"
             THEN tools_call(allowed.buckets, d, wall, body, x_user_id, page)
             ELSE IF body.method = "ping"
             THEN [Routed(200, TRUE, 0) EXCEPT !.response.pong = TRUE]
             ELSE Routed(404, FALSE, -32601)

\* the endpoint without the branch of ping: the method falls through to the 404
EndpointPingUnrouted(bks, d, t, wall, authorization, body, x_user_id, page) ==
    IF AuthFails(authorization)
    THEN Outcome(bks, "unasked", d, NoCall, <<"auth">>, Plain(401))
    ELSE IF body.kind = "malformed"
    THEN Outcome(bks, "unasked", d, NoCall, <<"auth", "parse">>,
                 Envelope(400, None, FALSE, -32700, TRUE))
    ELSE IF body.kind # "object"
    THEN Outcome(bks, "unasked", d, NoCall, <<"auth", "parse">>, Plain(500))
    ELSE IF EnvelopeInvalid(body) \/ body.jsonrpc # "2.0"
    THEN Outcome(bks, "unasked", d, NoCall, <<"auth", "parse">>,
                 Envelope(400, IdOf(body), FALSE, -32600, TRUE))
    ELSE LET allowed == RateLimiter_allow(bks, LimiterKey(ClientIp, x_user_id), t, Cost)
             Routed(status, result, error) ==
                 Outcome(allowed.buckets, "yes", d, NoCall,
                         <<"auth", "parse", "ratelimit", "route">>,
                         Envelope(status, IdOf(body), result, error, ~result))
         IN  IF ~allowed.ok
             THEN Outcome(allowed.buckets, "no", d, NoCall, <<"auth", "parse", "ratelimit">>,
                          Envelope(429, IdOf(body), FALSE, -32001, FALSE))
             ELSE IF body.method = "tools/list" THEN Routed(200, TRUE, 0)
             ELSE IF body.method = "tools/call"
             THEN tools_call(allowed.buckets, d, wall, body, x_user_id, page)
             ELSE Routed(404, FALSE, -32601)

\* app.py: mcp_endpoint, from the request to its response
mcp_endpoint(bks, d, t, wall, authorization, body, x_user_id, page) ==
    IF AuthFails(authorization)
    THEN Outcome(bks, "unasked", d, NoCall, <<"auth">>, Plain(401))
    ELSE IF body.kind = "malformed"
    THEN Outcome(bks, "unasked", d, NoCall, <<"auth", "parse">>,
                 Envelope(400, None, FALSE, -32700, TRUE))
    ELSE IF body.kind # "object"
    THEN Outcome(bks, "unasked", d, NoCall, <<"auth", "parse">>, Plain(500))
    ELSE IF EnvelopeInvalid(body) \/ body.jsonrpc # "2.0"
    THEN Outcome(bks, "unasked", d, NoCall, <<"auth", "parse">>,
                 Envelope(400, IdOf(body), FALSE, -32600, TRUE))
    ELSE LET allowed == RateLimiter_allow(bks, LimiterKey(ClientIp, x_user_id), t, Cost)
             Routed(status, result, error) ==
                 Outcome(allowed.buckets, "yes", d, NoCall,
                         <<"auth", "parse", "ratelimit", "route">>,
                         Envelope(status, IdOf(body), result, error, ~result))
         IN  IF ~allowed.ok
             THEN Outcome(allowed.buckets, "no", d, NoCall, <<"auth", "parse", "ratelimit">>,
                          Envelope(429, IdOf(body), FALSE, -32001, FALSE))
             ELSE IF body.method = "tools/list" THEN Routed(200, TRUE, 0)
             ELSE IF body.method = "tools/call"
             THEN tools_call(allowed.buckets, d, wall, body, x_user_id, page)
             ELSE IF body.method = "ping"
             THEN [Routed(200, TRUE, 0) EXCEPT !.response.pong = TRUE]
             ELSE Routed(404, FALSE, -32601)

(***************************************************************************)
(* The server: one process, one event loop.  mcp_endpoint awaits only the  *)
(* body of its request, before it reads or writes any state, so the rest   *)
(* of it runs without interruption: one action from request to response.   *)
(* The requests of a run arrive within one tick of the limiter's clock;    *)
(* what the limiter does as time passes is the subject of SpecBucket.      *)
(***************************************************************************)
Authorizations == {Null, AUTH_TOKEN, BearerPrefix \o <<"x">>, BearerPrefix \o AUTH_TOKEN}

Malformed == [kind |-> "malformed"]
ArrayBody == [kind |-> "array"]
Body(jsonrpc, method, id, params) ==
    [kind |-> "object", jsonrpc |-> jsonrpc, method |-> method, id |-> id,
     params |-> params]

CallParams(name, arguments) ==
    [kind |-> "object", keys |-> {"name", "arguments"},
     name |-> [kind |-> "string", value |-> name], arguments |-> arguments]

ToolCalls ==
    { CallParams("memory_store", Object([content |-> <<"a">>])),
      CallParams("memory_store", Object([content |-> <<" ">>])),
      CallParams("memory_delete", Object([id |-> 1])),
      CallParams("memory_list", [kind |-> "null", items |-> << >>]),
      CallParams("memory_list", Array),
      CallParams("nope", Object(<< >>)),
      [CallParams("memory_list", Object(<< >>)) EXCEPT
          !.name = [kind |-> "array", value |-> None]],
      [CallParams("memory_list", Object(<< >>)) EXCEPT !.keys = {"name"}],
      [CallParams("memory_list", Object(<< >>)) EXCEPT
          !.keys = {"arguments"}, !.name = NoName] }

Bodies ==
    {Malformed, ArrayBody}
    \cup {Body("1.0", "ping", "7", NoParams), Body(Absent, "ping", "7", NoParams),
          Body("2.0", "ping", Absent, NoParams),
          Body("2.0", "ping", "7", [NoParams EXCEPT !.kind = "array"])}
    \cup {Body("2.0", method, "7", NoParams) :
             method \in {"tools/list", "tools/call", "ping", "nope"}}
    \cup {Body("2.0", "tools/call", "7", params) : params \in ToolCalls}

\* the requests sent: every body with the right token, with and without X-User-Id;
\* a body that is not JSON, a ping, a tool call and a tools/call without params
\* with each wrong Authorization
HttpRequest(authorization, body, x_user_id) ==
    [authorization |-> authorization, body |-> body, x_user_id |-> x_user_id]

HttpRequests ==
    {HttpRequest(BearerPrefix \o AUTH_TOKEN, body, x_user_id) :
        body \in Bodies, x_user_id \in XUserIds}
    \cup {HttpRequest(authorization, body, Null) :
            authorization \in Authorizations,
            body \in {Malformed, Body("2.0", "ping", "7", NoParams),
                      Body("2.0", "tools/call", "7", NoParams),
                      Body("2.0", "tools/call", "7",
                           CallParams("memory_store", Object([content |-> <<"a">>])))}}

\* valid JSON, a valid envelope (a string method, params an object or none),
\* jsonrpc = "2.0"
WellFormed(body) ==
    /\ body.kind = "object"
    /\ body.jsonrpc = "2.0"
    /\ body.method \notin {Absent, NotAString}
    /\ body.params.kind \in {"absent", "null", "object"}

InitGateway ==
    /\ InitLimiter
    /\ InitLoop
    /\ domain = "memory"
    /\ db = InitDatabase(EmptyDb(TRUE))
    /\ solo = << >>
    /\ idmap = << >>
    /\ utc = 0
    /\ last = NoCall
    /\ InitIdle

\* one request from its arrival to its response; page is what fetch_html finds
Serve(authorization, body, x_user_id, page) ==
    \E key \in {LimiterKey(ClientIp, x_user_id)},
       out \in {mcp_endpoint(buckets, db, now, utc, authorization, body, x_user_id,
                             page)} :
        /\ out.allowed # "unasked" => calls[key].n < CallBound(key)
        /\ out.db.memories_seq <= MaxRows
        /\ out.db.links_seq <= MaxRows
        /\ buckets' = out.buckets
        /\ IF out.allowed = "unasked"
           THEN UNCHANGED <<calls, lastAllow>>
           ELSE /\ lastAllow' = AllowRecord(key, out.allowed = "yes",
                                            out.buckets[key].tokens)
                /\ calls' = Counted(key, out.allowed = "yes")
        /\ db' = out.db
        /\ last' = IF out.call = NoCall THEN last ELSE out.call
        /\ response' = [status |-> out.response.status, reply |-> out.response,
                        steps |-> out.steps,
                        request |-> [authorization |-> authorization,
                                     body |-> body,
                                     page |-> page,
                                     wellformed |-> WellFormed(body),
                                     method |-> IF body.kind = "object"
                                                THEN body.method ELSE Absent,
                                     id |-> IF body.kind = "object" /\ body.id # Absent
                                            THEN body.id ELSE None]]
        /\ UNCHANGED <<now, loopVars, utc, domain, solo, idmap, conns, journal>>

McpEndpoint(authorization, body, x_user_id) ==
    Serve(authorization, body, x_user_id, SavePage)

Next ==
    \E request \in HttpRequests :
        McpEndpoint(request.authorization, request.body, request.x_user_id)

Spec == InitGateway /\ [][Next]_vars

(***************************************************************************)
(* The gateway serving tool calls: every request carries the token and is  *)
(* a tools/call of a registered tool; the arguments are good ones and ones *)
(* that make the handler raise, and the page a link_save fetches is there  *)
(* or fails.                                                               *)
(***************************************************************************)
CallArguments ==
    { <<"memory_store", Object([content |-> <<"a">>])>>,
      <<"memory_store", Object([content |-> <<" ">>])>>,
      <<"memory_store", Object(<< >>)>>,
      <<"memory_update", Object([id |-> 1, content |-> <<"b">>])>>,
      <<"memory_update", Object([content |-> <<"b">>])>>,
      <<"memory_delete", Object([id |-> 1])>>,
      <<"memory_list", Array>>,
      <<"link_save", Object([url |-> <<"u">>])>>,
      <<"link_delete", Object([id |-> 1])>> }

ToolCall(name, arguments, x_user_id, page) ==
    Serve(BearerPrefix \o AUTH_TOKEN,
          Body("2.0", "tools/call", "7", CallParams(name, arguments)), x_user_id, page)

NextCalls ==
    \E call \in CallArguments, x_user_id \in XUserIds, page \in Pages :
        /\ call[1] # "link_save" => page = SavePage
        /\ ToolCall(call[1], call[2], x_user_id, page)

SpecCalls == InitGateway /\ [][NextCalls]_vars

(***************************************************************************)
(* The claims about the rate limiter.                                      *)
(***************************************************************************)

\* C5: allow tops the count up by elapsed * rate capped at the capacity, then
\* returns true and removes exactly one token iff at least one token is present;
\* otherwise it returns false and removes nothing.
C5_AllowTopsUpThenCharges ==
    lastAllow.key # NoKey =>
        LET gained == (lastAllow.at - lastAllow.prevAt) * Rate
            present == IF lastAllow.before + gained <= Capacity
                       THEN lastAllow.before + gained ELSE Capacity
        IN  /\ lastAllow.ok <=> present >= TicksPerToken
            /\ lastAllow.ok => lastAllow.after = present - TicksPerToken
            /\ ~lastAllow.ok => lastAllow.after = present

\* a call refused while a fraction of a token is present
C5_Witness ==
    /\ lastAllow.key # NoKey
    /\ ~lastAllow.ok
    /\ lastAllow.after > 0
    /\ lastAllow.at > lastAllow.prevAt

\* 0.2 seconds, in ticks
FifthOfSecond == TicksPerSecond \div 5

\* C6: on a fresh key with rate 5/s and burst 15, the first 15 calls made with no
\* time elapsing return true, the 16th returns false, and a further call made at
\* least 0.2 s later returns true.
C6_BurstThenRefill ==
    lastAllow.key # NoKey =>
        /\ (lastAllow.n <= Burst /\ lastAllow.at = lastAllow.created) => lastAllow.ok
        /\ (lastAllow.n = Burst + 1 /\ lastAllow.at = lastAllow.created) => ~lastAllow.ok
        /\ ( /\ lastAllow.n = Burst + 2
             /\ lastAllow.prevAt = lastAllow.created
             /\ lastAllow.at - lastAllow.prevAt >= FifthOfSecond ) => lastAllow.ok

\* the 17th call, made 0.2 s or more after 16 immediate ones, is allowed
C6_Witness ==
    /\ lastAllow.n = Burst + 2
    /\ lastAllow.prevAt = lastAllow.created
    /\ lastAllow.at - lastAllow.prevAt >= FifthOfSecond
    /\ lastAllow.ok

\* C7: whatever the interleaving of the requests in flight, the calls granted on
\* a key never exceed the tokens available to it: the initial burst plus the
\* refill since the bucket was created; and no bucket goes below zero.
C7_NoDoubleSpend ==
    \A key \in DOMAIN buckets :
        /\ calls[key].granted * Cost <= Capacity + (now - calls[key].created) * Rate
        /\ buckets[key].tokens >= 0

\* two requests of one key in flight at once with exactly one token left
C7_Witness ==
    \E r1, r2 \in Requests :
        /\ r1 # r2
        /\ pc[r1] = "await_json" /\ pc[r2] = "await_json"
        /\ local[r1].key = local[r2].key
        /\ local[r1].key \in DOMAIN buckets
        /\ buckets[local[r1].key].tokens = Cost
        /\ calls[local[r1].key].granted = Burst - 1

(***************************************************************************)
(* The claims about the gateway.  response' is the exchange of the step:   *)
(* every step of Spec is one run of mcp_endpoint.                          *)
(***************************************************************************)
GoodAuthorization == BearerPrefix \o AUTH_TOKEN

\* C1 as stated: every request that passes bearer authentication, whatever its body,
\* ends in a response whose body is a JSON-RPC envelope with jsonrpc = "2.0" and
\* exactly one of result and error set.
C1_AlwaysOneEnvelope ==
    (response.status # 0 /\ response.request.authorization = GoodAuthorization) =>
        /\ response.reply.envelope
        /\ response.reply.jsonrpc = "2.0"
        /\ response.reply.result # (response.reply.error # 0)

\* C2: a request whose Authorization header is missing, does not start with
\* "Bearer " or carries another token than the configured one is answered 401,
\* whatever its body; it takes no token of the limiter (allow is not called), runs
\* no tool handler and changes neither the tables nor the indexes.
C2_BadAuthorizationIs401AndTouchesNothing ==
    [][ (response'.status # 0 /\ response'.request.authorization # GoodAuthorization) =>
            /\ response'.status = 401
            /\ response'.steps = <<"auth">>
            /\ buckets' = buckets /\ calls' = calls /\ lastAllow' = lastAllow
            /\ last' = last
            /\ db' = db
      ]_vars

\* a well-formed request with a wrong token got 401 from a server whose limiter has
\* buckets and whose store has records
C2_Witness ==
    /\ response.status = 401
    /\ response.request.authorization = BearerPrefix \o <<"x">>
    /\ response.request.wellformed
    /\ response.request.method = "tools/call"
    /\ DOMAIN buckets # {}
    /\ DOMAIN db.memories # {}

StepsInOrder == <<"auth", "parse", "ratelimit", "route", "handler">>

\* the step took a token out of some bucket (no time passes within a run)
TokenTaken ==
    \E key \in DOMAIN buckets' :
        buckets'[key].tokens < (IF key \in DOMAIN buckets THEN buckets[key].tokens
                                ELSE Capacity)

\* C3: the steps of a request are a prefix of auth, parse, rate-limit, route, handler;
\* a token is taken only for a request that passed authentication and parsing
\* (well-formed); for every such request, whatever its method, allow is called and a
\* token is taken unless none is left (429); a handler runs only in a step whose
\* allow call took a token.
C3_AuthParseLimitRoute ==
    [][ response'.status # 0 =>
            LET parsed == /\ response'.request.authorization = GoodAuthorization
                          /\ response'.request.wellformed
            IN  /\ SubSeq(StepsInOrder, 1, Len(response'.steps)) = response'.steps
                /\ (TokenTaken \/ calls' # calls) => parsed
                /\ parsed => /\ calls' # calls
                             /\ TokenTaken \/ response'.status = 429
                /\ ("handler" \in {response'.steps[i] : i \in 1..Len(response'.steps)}
                        \/ last' # last \/ db' # db)
                       => TokenTaken /\ lastAllow'.ok
      ]_vars

\* a request of a method the server does not know was charged a token, after a
\* request that ran a handler was
C3_Witness ==
    /\ response.status = 404
    /\ response.request.method = "nope"
    /\ response.steps = SubSeq(StepsInOrder, 1, 4)
    /\ lastAllow.ok
    /\ lastAllow.after + Cost = lastAllow.before
    /\ last.tool = "memory_store"

\* C4: when limiter.allow(key) returns false for a parsed request, the response is
\* 429 with error code -32001 and the id of the request; no handler runs and
\* neither the tables nor the indexes change.
C4_DeniedIs429AndTouchesNothing ==
    [][ (response'.status # 0 /\ calls' # calls /\ ~lastAllow'.ok) =>
            /\ response'.status = 429
            /\ response'.reply.envelope
            /\ response'.reply.error = -32001
            /\ ~response'.reply.result
            /\ response'.reply.id = response'.request.id
            /\ response'.steps = <<"auth", "parse", "ratelimit">>
            /\ last' = last
            /\ db' = db
      ]_vars

\* a tools/call with an id was denied while the store has records
C4_Witness ==
    /\ response.status = 429
    /\ response.request.method = "tools/call"
    /\ response.request.id = "7"
    /\ ~lastAllow.ok
    /\ DOMAIN db.memories # {}

(***************************************************************************)
(* The claims about the scope boundary of the store.                       *)
(***************************************************************************)

\* the id names a row of the table that another scope owns
ForeignId(table, user_scope, id) ==
    id \in DOMAIN table /\ table[id].user_scope # user_scope

\* the step is the call of the tool with an id another scope owns
ForeignCall(tool, table) ==
    /\ last'.tool = tool
    /\ ForeignId(table, last'.user_scope, last'.args.id)

\* C8: memory_update, memory_delete and link_delete called with an id that another
\* scope owns change no row of the tables and no row of the indexes; the deletes
\* return deleted 0; memory_update returns updated 0 when its fields pass
\* validate_memory_fields and raises ValueError when they do not.
C8_ForeignIdAffectsNothing ==
    [][ /\ ForeignCall("memory_delete", db.memories)
            => db' = db /\ ~last'.raised /\ last'.result = [deleted |-> 0]
        /\ ForeignCall("link_delete", db.links)
            => db' = db /\ ~last'.raised /\ last'.result = [deleted |-> 0]
        /\ ForeignCall("memory_update", db.memories)
            => /\ db' = db
               /\ last'.raised <=> ValidationFails(last'.args.edit.content,
                                                    last'.args.edit.tags,
                                                    last'.args.edit.context)
               /\ ~last'.raised => last'.result = [updated |-> 0]
      ]_vars

\* memory_update by one scope on a record of another, indexed, returned updated 0
C8_Witness ==
    /\ last.tool = "memory_update"
    /\ ForeignId(db.memories, last.user_scope, last.args.id)
    /\ last.args.id \in DOMAIN db.memories_fts
    /\ ~last.raised
    /\ last.result = [updated |-> 0]

\* C8 as stated: every such call returns updated 0 or deleted 0
C8_ForeignIdReturnsZero ==
    [][ /\ ForeignCall("memory_delete", db.memories)
            => ~last'.raised /\ last'.result = [deleted |-> 0]
        /\ ForeignCall("link_delete", db.links)
            => ~last'.raised /\ last'.result = [deleted |-> 0]
        /\ ForeignCall("memory_update", db.memories)
            => ~last'.raised /\ last'.result = [updated |-> 0]
      ]_vars

\* the ids of the main run read as the ids of a solo run, and the ids as they are
RenameItems(items, ids) ==
    [i \in 1..Len(items) |-> [items[i] EXCEPT !.id = OwnId(ids, @)]]
RenameFound(result, ids) ==
    IF result.found THEN [result EXCEPT !.id = OwnId(ids, @)] ELSE result
SameIds == [memories |-> [id \in 1..MaxRows |-> id], links |-> [id \in 1..MaxRows |-> id]]

RangeHints == {TodayHint, YesterdayHint, LastWeekHint}
TagFilters == {Null, <<"a">>}

\* what the reading handlers return to a scope, for every argument of the small sets
View(d, s, ids) ==
    [memory_list |-> [w \in Windows |->
        RenameItems(tool_memory_list(d, s, w.limit, w.offset).result.items, ids.memories)],
     memory_query |-> [q \in Queries |->
        RenameItems(tool_memory_query(d, utc, s, q, 20).result.items, ids.memories)],
     memory_export |-> RenameItems(tool_memory_export(d, s).result.json, ids.memories),
     memory_stats |-> tool_memory_stats(d, s).result,
     memory_context |-> [c \in Contents |->
        RenameItems(tool_memory_context(d, s, c, 20).result.items, ids.memories)],
     memory_summary |-> [h \in RangeHints |-> tool_memory_summary(d, utc, s, h).result],
     link_fetch |-> [u \in Urls |-> RenameFound(tool_link_fetch(d, s, u).result, ids.links)],
     link_list |-> [w \in Windows |-> [tag \in TagFilters |->
        RenameItems(tool_link_list(d, s, w.limit, w.offset, tag).result.items, ids.links)]],
     link_query |-> [q \in Queries |->
        RenameItems(tool_link_query(d, s, q, 20).result.items, ids.links)],
     link_get_summary |-> [u \in Urls |->
        RenameFound(tool_link_get_summary(d, s, u).result, ids.links)]]

\* the ids of the records a view returns
ItemIds(items) == {items[i].id : i \in 1..Len(items)}
FoundIds(result) == IF result.found THEN {result.id} ELSE {}
MemoryIdsOf(v) ==
    UNION ( {ItemIds(v.memory_list[w]) : w \in Windows}
            \cup {ItemIds(v.memory_query[q]) : q \in Queries}
            \cup {ItemIds(v.memory_context[c]) : c \in Contents}
            \cup {ItemIds(v.memory_export)} )
LinkIdsOf(v) ==
    UNION ( {ItemIds(v.link_list[w][tag]) : w \in Windows, tag \in TagFilters}
            \cup {ItemIds(v.link_query[q]) : q \in Queries}
            \cup {FoundIds(v.link_fetch[u]) : u \in Urls}
            \cup {FoundIds(v.link_get_summary[u]) : u \in Urls} )

\* C9: after any sequence of calls by any scopes, what list, query, fetch, export,
\* summary (and stats, context, get_summary) return to a scope holds only records of
\* that scope, and is what they return in the run where the other scopes made no
\* call, once each record id is read as the id the record has in that run.
C9_OwnRecordsOnlyUpToIds ==
    \A s \in Scopes :
        LET v == View(db, s, SameIds)
        IN  /\ \A id \in MemoryIdsOf(v) : db.memories[id].user_scope = s
            /\ \A id \in LinkIdsOf(v) : db.links[id].user_scope = s
            /\ View(db, s, idmap[s]) = View(solo[s], s, SameIds)

\* a query on the index path, answered with a record of the caller while a record
\* of another scope, also in the index, matches the query as well
C9_Witness ==
    /\ last.tool = "memory_query"
    /\ UsedFts(db, last.args.query)
    /\ last.result.items # << >>
    /\ \E id \in DOMAIN db.memories_fts :
          /\ ForeignId(db.memories, last.user_scope, id)
          /\ FtsMatch(MemoryFtsColumns(db.memories_fts[id]), last.args.query)

\* C9 as stated: the results are the same whatever the other scopes did
C9_SameWhateverOthersDid ==
    \A s \in Scopes : View(db, s, SameIds) = View(solo[s], s, SameIds)

\* no two rows of the table have the same (user_scope, url)
UniqueLinks(d) ==
    \A i, j \in DOMAIN d.links :
        (d.links[i].user_scope = d.links[j].user_scope /\ d.links[i].url = d.links[j].url)
            => i = j

\* C10: in every reachable state, the saves of several workers for the same user and
\* URL overlapping, the links table holds at most one record per (user_scope, url),
\* in the committed file and in the transaction that holds the write lock.
C10_OneRecordPerUserUrl ==
    /\ UniqueLinks(db)
    /\ journal.holder # None => UniqueLinks(journal.db)

\* two workers are inside link_save for the same user and URL, both past their
\* INSERT: the row of the first is committed, the second holds the write lock
C10_Witness ==
    \E p, q \in Workers :
        /\ p # q
        /\ conns[p].pc \in {"select", "index"}
        /\ conns[q].pc = "commit"
        /\ conns[p].user_scope = conns[q].user_scope
        /\ conns[p].url = conns[q].url
        /\ LinkIds(db, conns[p].user_scope, conns[p].url) # {}
        /\ Cardinality(LinkIds(journal.db, conns[q].user_scope, conns[q].url)) = 1

(***************************************************************************)
(* The claims about saving a link again.                                   *)
(***************************************************************************)

\* the step is a link_save that wrote its row
SaveStep == last'.tool = "link_save" /\ db'.links_seq # db.links_seq

\* the row link_save wrote for its (user_scope, url), before and after the step
SavedBefore == LinkIds(db, last'.user_scope, last'.args.url)
SavedAfter == LinkIds(db', last'.user_scope, last'.args.url)

\* C11: a link_save of a (user_scope, url) that has a row returns the id of that
\* row, which is the id the save that created the row returned; it leaves the
\* row's created_at as it was and sets its updated_at to the time of this save.
C11_SaveAgainKeepsIdAndCreatedAt ==
    [][ SaveStep =>
          /\ ~last'.raised
          /\ SavedAfter = {last'.result.id}
          /\ db'.links[last'.result.id].updated_at = utc
          /\ SavedBefore = {} => db'.links[last'.result.id].created_at = utc
          /\ SavedBefore # {} =>
                /\ SavedBefore = SavedAfter
                /\ db'.links[last'.result.id].created_at
                      = db.links[last'.result.id].created_at
      ]_vars

\* a URL saved, then saved again later by the same scope
C11_Witness ==
    /\ last.tool = "link_save"
    /\ ~last.raised
    /\ db.links_seq = 2
    /\ DOMAIN db.links = {1}
    /\ last.result.id = 1
    /\ db.links[1].created_at = 0
    /\ db.links[1].updated_at = utc
    /\ utc > 0

(***************************************************************************)
(* The claims about the search index following the base tables.            *)
(***************************************************************************)

\* the index row of the id is the row the base row would be given by the backfill
MemoryIndexed(d, id) ==
    /\ id \in DOMAIN d.memories_fts
    /\ d.memories_fts[id] = MemoryFtsRow(d.memories[id])

LinkIndexed(d, id) ==
    /\ id \in DOMAIN d.links_fts
    /\ d.links_fts[id] = LinkFtsRow(d.links[id])

\* C12: where FTS5 exists, after a memory_store, a memory_update of a row or a
\* link_save has returned, the index row of the record's id holds the record's
\* current text fields.
C12_IndexFollowsWrites ==
    (db.fts5 /\ ~last.raised) =>
        /\ last.tool = "memory_store" => MemoryIndexed(db, last.result.id)
        /\ (last.tool = "memory_update" /\ last.result.updated = 1)
              => MemoryIndexed(db, last.args.id)
        /\ last.tool = "link_save" => LinkIndexed(db, last.result.id)

\* every record a query returns is a row of the base table
QueriesReturnRows ==
    \A s \in Scopes, q \in Queries :
        /\ ItemIds(tool_memory_query(db, utc, s, q, 20).result.items)
              \subseteq DOMAIN db.memories
        /\ ItemIds(tool_link_query(db, s, q, 20).result.items) \subseteq DOMAIN db.links

\* connection p returns from a delete that deleted the row
DeleteReturns(p) ==
    /\ conns[p].pc \in {"memory_delete_index", "delete_index"}
    /\ conns'[p].pc = "idle"
    /\ conns[p].deleted = 1

\* C13: in every state, the window between the commit of a delete and its index
\* delete and the states after a failed index delete included, memory_query and
\* link_query return only ids of rows of the base table; and a delete that
\* returns deleted 1 has left no index row of the id unless its index delete
\* failed, the write lock being held by another connection.
C13_QueriesNeverReturnDeletedIds ==
    /\ []QueriesReturnRows
    /\ [][ \A p \in Workers :
              (DeleteReturns(p) /\ journal.holder = None) =>
                  /\ conns[p].id \notin DOMAIN db'.memories_fts
                  /\ conns[p].id \notin DOMAIN db'.links_fts
         ]_vars

\* the index delete of a memory_delete failed: the index keeps a row that matches
\* the query "a" of its owner, and the query returns nothing
C13_Witness ==
    /\ last.tool = "memory_delete"
    /\ ~last.raised
    /\ last.result.deleted = 1
    /\ last.args.id \notin DOMAIN db.memories
    /\ last.args.id \in DOMAIN db.memories_fts
    /\ db.memories_fts[last.args.id].user_scope = last.user_scope
    /\ FtsMatch(MemoryFtsColumns(db.memories_fts[last.args.id]), <<"a">>)
    /\ UsedFts(db, <<"a">>)
    /\ tool_memory_query(db, utc, last.user_scope, <<"a">>, 20).result.items = << >>

\* C13 as stated: after a delete returned deleted 1 the index has no row of the id
C13_DeleteAlwaysPurgesIndex ==
    /\ QueriesReturnRows
    /\ (last.tool = "memory_delete" /\ ~last.raised /\ last.result.deleted = 1)
          => last.args.id \notin DOMAIN db.memories_fts
    /\ (last.tool = "link_delete" /\ ~last.raised /\ last.result.deleted = 1)
          => last.args.id \notin DOMAIN db.links_fts

\* connection p is idle and the call it ran last, a write of the record, returned
Wrote(p, tools, id) ==
    /\ conns[p].pc = "idle"
    /\ conns[p].tool \in tools
    /\ ~conns[p].raised
    /\ conns[p].id = id

\* C14: once a memory_update of a record and another memory_update or a
\* memory_delete of the same record, run by two connections in any interleaving,
\* have both returned, the index row of the id holds the text fields of the base
\* row, and there is none if the base row was deleted.
C14_IndexAgreesAfterConcurrentWrites ==
    (domain = "memory" /\ db.fts5) =>
        \A p, q \in Workers, id \in 1..MaxRows :
            ( /\ p # q
              /\ Wrote(p, {"memory_update"}, id)
              /\ Wrote(q, {"memory_update", "memory_delete"}, id)
              /\ id \in DOMAIN db.memories_fts \cup DOMAIN db.memories )
            => IF id \in DOMAIN db.memories
               THEN MemoryIndexed(db, id)
               ELSE id \notin DOMAIN db.memories_fts

(***************************************************************************)
(* The claims about the fallback path of the queries.                      *)
(***************************************************************************)

\* query strings the index accepts, and strings it rejects with a syntax error
QueryForms == {<<"a">>, <<"b">>, <<" ">>, <<"a", ",">>}

MemoryItemKeys == {"id", "content", "context", "tags", "created_at", "updated_at"}
LinkItemKeys == {"id", "url", "title", "byline", "site_name", "tags", "word_count",
                 "reading_minutes", "created_at", "updated_at"}

\* the handler returned {"items": [...]}, each item a dict with the keys
ItemsOfShape(out, keys) ==
    /\ ~out.raised
    /\ DOMAIN out.result = {"items"}
    /\ \A i \in 1..Len(out.result.items) : DOMAIN out.result.items[i] = keys

\* C15: memory_query and link_query return {"items": [...]} with the same item
\* keys whichever path serves them, and never raise because the index is absent
\* or rejects the query.
C15_FallbackNeverErrs ==
    \A s \in Scopes, q \in QueryForms :
        /\ ItemsOfShape(tool_memory_query(db, utc, s, q, 20), MemoryItemKeys)
        /\ ItemsOfShape(tool_link_query(db, s, q, 20), LinkItemKeys)

\* a memory_query served by the substring scan, the index being absent, found a record
C15_Witness ==
    /\ last.tool = "memory_query"
    /\ ~db.fts5
    /\ ~UsedFts(db, last.args.query)
    /\ ~last.raised
    /\ last.result.items # << >>

\* query strings of the substring scan
ScanQueries == {<<"a">>, <<"B">>, <<"_">>}

\* the text is in the field, whatever the case of the letters
Within(field, text) == field # Null /\ Contains(Lower(field), Lower(text))

\* the ids of the first limit items, largest id first
FirstIds(ids, limit) == LimitOffset(Descending(ids), limit, 0)

IdsInOrder(items) == [i \in 1..Len(items) |-> items[i].id]

\* C16: without the index, a query returns the records of the caller whose
\* searched fields contain the text, largest id first, the first limit of them.
C16_ScanFindsSubstrings ==
    ~db.fts5 =>
        \A s \in Scopes, q \in ScanQueries, limit \in 0..MaxRows :
            LET InMemory(id, row) ==
                    /\ row.user_scope = s
                    /\ \/ Within(row.content, q)
                       \/ Within(row.context, q)
                       \/ Within(row.tags, q)
                InLink(id, row) ==
                    /\ row.user_scope = s
                    /\ \/ Within(row.title, q)
                       \/ Within(row.byline, q)
                       \/ Within(row.site_name, q)
                       \/ Within(row.tags, q)
                       \/ Within(row.content, q)
            IN  /\ IdsInOrder(tool_memory_query(db, utc, s, q, limit).result.items)
                      = FirstIds(Where(db.memories, InMemory), limit)
                /\ IdsInOrder(tool_link_query(db, s, q, limit).result.items)
                      = FirstIds(Where(db.links, InLink), limit)

(***************************************************************************)
(* The claims about the error responses of the gateway.                    *)
(***************************************************************************)

\* the last request carried the configured token
Authenticated ==
    response.status # 0 /\ response.request.authorization = GoodAuthorization

\* the response is a JSON-RPC error envelope with the status and the code
ErrorReply(status, code) ==
    /\ response.status = status
    /\ response.reply.envelope
    /\ response.reply.jsonrpc = "2.0"
    /\ ~response.reply.result
    /\ response.reply.error = code

\* C17: an authenticated request whose body is not JSON is answered 400 with an
\* error envelope of code -32700 and id null.
C17_MalformedJsonIs400ParseError ==
    (Authenticated /\ response.request.body.kind = "malformed") =>
        /\ ErrorReply(400, -32700)
        /\ response.reply.id = None

\* a body that is not JSON, sent with the token after a tool call changed the store
C17_Witness ==
    /\ Authenticated
    /\ response.request.body = Malformed
    /\ response.status = 400
    /\ response.steps = <<"auth", "parse">>
    /\ DOMAIN db.memories # {}

\* C18: an authenticated request whose body is JSON but not a valid envelope (no
\* jsonrpc or method, a member of the wrong type, a value that is not an object,
\* jsonrpc other than "2.0") is answered 400 with an error envelope of code -32600.
C18_InvalidEnvelopeIs400InvalidRequest ==
    ( /\ Authenticated
      /\ response.request.body.kind # "malformed"
      /\ ~WellFormed(response.request.body) )
    => ErrorReply(400, -32600)

\* the params of a tools/call of the last request have no name or no arguments
ParamsIncomplete ==
    /\ response.status # 0
    /\ WellFormed(response.request.body)
    /\ response.request.body.method = "tools/call"
    /\ LET params == response.request.body.params
       IN  params.keys = {} \/ "name" \notin params.keys \/ "arguments" \notin params.keys

\* the step ran a tool handler
HandlerRan ==
    \/ "handler" \in {response'.steps[i] : i \in 1..Len(response'.steps)}
    \/ last' # last

\* C19: a tools/call whose params have no name or no arguments, sent with the
\* configured token and let through by the rate limiter, is answered 400 with an
\* error envelope of code -32602; no tool handler runs and the store is unchanged.
C19_IncompleteParamsIs400InvalidParams ==
    [][ (ParamsIncomplete' /\ Authenticated' /\ calls' # calls /\ lastAllow'.ok) =>
            /\ ErrorReply(400, -32602)'
            /\ ~HandlerRan
            /\ db' = db
      ]_vars

\* a tools/call with a name and no arguments was answered 400 after the limiter
\* charged it, while the store has records
C19_Witness ==
    /\ ParamsIncomplete
    /\ Authenticated
    /\ response.request.body.params.keys = {"name"}
    /\ response.status = 400
    /\ response.steps = <<"auth", "parse", "ratelimit", "route">>
    /\ lastAllow.ok
    /\ DOMAIN db.memories # {}

\* C19 as stated: every tools/call whose params have no name or no arguments is
\* answered 400 with an error envelope of code -32602, and no tool handler runs.
C19_IncompleteParamsAlways400 ==
    [][ ParamsIncomplete' => (ErrorReply(400, -32602)' /\ ~HandlerRan) ]_vars

\* the last request is a tools/call with name and arguments whose name is no key
\* of the registry
UnknownTool ==
    /\ response.status # 0
    /\ WellFormed(response.request.body)
    /\ response.request.body.method = "tools/call"
    /\ LET params == response.request.body.params
       IN  /\ {"name", "arguments"} \subseteq params.keys
           /\ params.name.kind # "string" \/ params.name.value \notin TOOLS

\* the method of the last request is none of tools/list, tools/call and ping
UnknownMethod ==
    /\ response.status # 0
    /\ WellFormed(response.request.body)
    /\ response.request.body.method \notin {"tools/list", "tools/call", "ping"}

\* C20: a tools/call that names a tool the registry does not have, and a request
\* of a method that is none of tools/list, tools/call and ping, sent with the
\* configured token and let through by the rate limiter, are answered 404 with an
\* error envelope of code -32601; no tool handler runs and the store is unchanged.
C20_UnknownToolOrMethodIs404 ==
    [][ ( /\ UnknownTool' \/ UnknownMethod'
          /\ Authenticated'
          /\ calls' # calls
          /\ lastAllow'.ok )
        => /\ ErrorReply(404, -32601)'
           /\ ~HandlerRan
           /\ db' = db
      ]_vars

(***************************************************************************)
(* The claims about what a handler's exception becomes.                    *)
(***************************************************************************)

\* the step ran a handler, and the handler raised
HandlerRaised ==
    /\ "handler" \in {response'.steps[i] : i \in 1..Len(response'.steps)}
    /\ last'.raised

\* the last response reports a handler's exception
ExecutionErrorReply ==
    /\ response.status # 0
    /\ ErrorReply(500, -32000)
    /\ response.reply.message = ExecutionError(last.result)

\* C21: an exception raised while a registered handler runs (ValueError of the
\* validation, TypeError of int(None), AttributeError of the arguments,
\* IntegrityError of the table, the error of the fetch) is answered 500 with an error
\* envelope of code -32000 whose message holds the text of the exception and whose
\* id is the request's; a memory_store of good content that follows such an answer
\* runs and is answered 200 with the id of its new row.
C21_HandlerExceptionIs500ExecutionError ==
    /\ [][ HandlerRaised =>
              /\ ExecutionErrorReply'
              /\ response'.reply.id = response'.request.id
              /\ response'.reply.request_id_in_data
         ]_vars
    /\ [][ ( /\ ExecutionErrorReply
              /\ response'.steps = StepsInOrder
              /\ last'.tool = "memory_store"
              /\ last'.args = Object([content |-> <<"a">>]) )
            => /\ response'.status = 200
               /\ response'.reply.result
               /\ ~last'.raised
               /\ last'.result.id = db.memories_seq + 1
               /\ last'.result.id \in DOMAIN db'.memories
         ]_vars

\* the fetch of a link_save failed and was answered 500 / -32000, while the store
\* has a record
C21_Witness ==
    /\ ExecutionErrorReply
    /\ last.tool = "link_save"
    /\ last.result.error = "HTTPError"
    /\ response.steps = StepsInOrder
    /\ DOMAIN db.memories # {}

(***************************************************************************)
(* The claims about the request identifier and about ping.                 *)
(***************************************************************************)

\* C22: every response has the x-request-id header and the same identifier in its
\* body: in result when the request succeeded, in error.data when it failed, the
\* rejections of the rate limiter included.
C22_EveryResponseCarriesRequestId ==
    response.status # 0 =>
        /\ response.reply.x_request_id
        /\ response.reply.envelope
        /\ response.reply.result => response.reply.request_id_in_result
        /\ response.reply.error # 0 => response.reply.request_id_in_data

\* the last request is {"jsonrpc": "2.0", "method": "ping", "id": ...} with the token
PingRequest ==
    /\ Authenticated
    /\ response.request.body = Body("2.0", "ping", "7", NoParams)

\* C23: a ping with the configured token that the rate limiter lets through is
\* answered 200 with the id of the request and a result holding pong = true,
\* whatever was served before; no handler runs and the store is unchanged.
C23_PingIsPong ==
    [][ (PingRequest' /\ calls' # calls /\ lastAllow'.ok) =>
            /\ response'.status = 200
            /\ response'.reply.envelope
            /\ response'.reply.jsonrpc = "2.0"
            /\ response'.reply.id = "7"
            /\ response'.reply.result
            /\ response'.reply.pong
            /\ response'.reply.error = 0
            /\ db' = db /\ last' = last
      ]_vars

\* a ping answered 200 after tool calls changed the store and took tokens
C23_Witness ==
    /\ PingRequest
    /\ response.status = 200
    /\ response.reply.pong
    /\ lastAllow.ok
    /\ lastAllow.n > 2
    /\ DOMAIN db.memories # {}

\* C23 as stated: a ping with the configured token is answered 200 with pong = true
\* in any state of the gateway.
C23_PingIsPongInAnyState ==
    PingRequest => (response.status = 200 /\ response.reply.pong)

(***************************************************************************)
(* The claim about the scope of a call.                                    *)
(***************************************************************************)

\* r is v without the spaces at its ends
TrimOf(r, v) ==
    /\ r # << >>
    /\ ~IsSpace(r[1]) /\ ~IsSpace(r[Len(r)])
    /\ \E i \in 1..Len(v) :
          /\ i + Len(r) - 1 <= Len(v)
          /\ SubSeq(v, i, i + Len(r) - 1) = r
          /\ \A k \in (1..(i - 1)) \cup ((i + Len(r))..Len(v)) : IsSpace(v[k])

\* v is a string with a character that is no space
NonBlankStr(v) == IsStr(v) /\ \E k \in 1..Len(v) : ~IsSpace(v[k])

\* C24: get_user_scope returns the trimmed X-User-Id header when the header is not
\* blank; otherwise the trimmed value of arguments.user when that is a string that
\* is not blank; otherwise "default".
C24_HeaderThenUserThenDefault ==
    last.done =>
        /\ ~last.raised
        /\ IF NonBlankStr(last.header) THEN TrimOf(last.result, last.header)
           ELSE IF /\ last.params.kind = "object"
                   /\ "user" \in DOMAIN last.params.items
                   /\ NonBlankStr(last.params.items["user"])
           THEN TrimOf(last.result, last.params.items["user"])
           ELSE last.result = DefaultUser

(***************************************************************************)
(* The claims about the validation of the fields.                          *)
(***************************************************************************)

\* the string has no character that is not a space
Blank(v) == \A k \in 1..Len(v) : IsSpace(v[k])

\* the fields break a limit: content blank or too long, context too long, too many
\* tags or a tag too long
FieldsPastLimits(fields) ==
    \/ fields.content # Null /\ (Blank(fields.content) \/ Len(fields.content) > MAX_CONTENT_LEN)
    \/ fields.context # Null /\ Len(fields.context) > MAX_CONTEXT_LEN
    \/ fields.tags # NoList /\ Len(fields.tags) > MAX_TAGS
    \/ fields.tags # NoList /\ \E i \in 1..Len(fields.tags) : Len(fields.tags[i]) > MAX_TAG_LEN

\* C25: memory_store and memory_update raise, and leave the tables and the indexes
\* as they were, when the content is blank or longer than MAX_CONTENT_LEN (for
\* memory_store also when there is none), the context is longer than
\* MAX_CONTEXT_LEN, there are more than MAX_TAGS tags or a tag is longer than
\* MAX_TAG_LEN.
C25_FieldsPastLimitsAreRejected ==
    [][ ( /\ last'.tool \in {"memory_store", "memory_update"}
          /\ \/ FieldsPastLimits(last'.args.edit)
             \/ last'.tool = "memory_store" /\ last'.args.edit.content = Null )
        => (last'.raised /\ db' = db)
      ]_vars

\* a memory_update with a tag of MAX_TAG_LEN + 1 characters was rejected on a record
\* whose tag has MAX_TAG_LEN characters
C25_Witness ==
    /\ last.tool = "memory_update"
    /\ last.raised
    /\ last.args.id \in DOMAIN db.memories
    /\ last.args.edit.tags = <<Long(MAX_TAG_LEN + 1)>>
    /\ db.memories[last.args.id].tags = Long(MAX_TAG_LEN)

\* C26: link_save raises, and leaves the links table and its index as they were,
\* when it is called with more than MAX_TAGS tags or with a tag longer than
\* MAX_TAG_LEN.
C26_LinkSaveEnforcesTagLimits ==
    [][ ( /\ last'.tool = "link_save"
          /\ last'.args.tags # NoList
          /\ \/ Len(last'.args.tags) > MAX_TAGS
             \/ \E i \in 1..Len(last'.args.tags) : Len(last'.args.tags[i]) > MAX_TAG_LEN )
        => (last'.raised /\ db'.links = db.links /\ db'.links_fts = db.links_fts)
      ]_vars

(***************************************************************************)
(* The claims about the errors of the handlers.                            *)
(***************************************************************************)

\* the step ran link_save, and the fetch of its page failed
SaveFetchFailed ==
    /\ "handler" \in {response'.steps[i] : i \in 1..Len(response'.steps)}
    /\ last'.tool = "link_save"
    /\ response'.request.page.failed

\* C27: a link_save whose fetch fails is answered with one error of code -32000
\* that holds the error of the fetch; the page is not fetched again, and the
\* links table and its index are as before, a record saved earlier for the
\* url included.
C27_FetchFailureIsOneExecutionError ==
    [][ SaveFetchFailed =>
            /\ ExecutionErrorReply'
            /\ last'.result.error = "HTTPError"
            /\ db' = db
      ]_vars

\* the fetch failed for a url of which the caller has a record saved
C27_Witness ==
    /\ ExecutionErrorReply
    /\ last.tool = "link_save"
    /\ response.request.page.failed
    /\ \E id \in DOMAIN db.links :
          /\ db.links[id].url = last.args.items.url
          /\ db.links[id].user_scope = last.user_scope

\* the step ran memory_update, memory_delete or link_delete with an id that no
\* record of its table has
NoSuchRecord ==
    /\ "handler" \in {response'.steps[i] : i \in 1..Len(response'.steps)}
    /\ last'.tool \in {"memory_update", "memory_delete", "link_delete"}
    /\ "id" \in DOMAIN last'.args.items
    /\ last'.args.items.id \notin
          DOMAIN (IF last'.tool = "link_delete" THEN db.links ELSE db.memories)

\* C28: a memory_update, memory_delete or link_delete that names an id no record
\* has is answered with an error of code -32000 and a message.
C28_NoSuchRecordIsExecutionError ==
    [][ NoSuchRecord =>
            /\ ErrorReply(500, -32000)'
            /\ response'.reply.message # << >>
      ]_vars

(***************************************************************************)
(* The claims about the time hints of memory_query.                        *)
(***************************************************************************)

\* the query has the hint in it, in whatever letter case
HasHint(query, hint) ==
    \E i \in 1..Len(query) :
        /\ i + Len(hint) - 1 <= Len(query)
        /\ \A k \in 1..Len(hint) : LowerChar(query[i + k - 1]) = hint[k]

\* C29: the range of a query is the range of one hint: of "last week" when the
\* query has it, else of "yesterday" when the query has it, else of "today" when
\* the query has it, in any letter case; a query with no hint has no range.
C29_LastWeekThenYesterdayThenToday ==
    last.done =>
        last.result =
            IF HasHint(last.query, LastWeekHint) THEN ParseTimeHints(LastWeekHint, utc)
            ELSE IF HasHint(last.query, YesterdayHint) THEN ParseTimeHints(YesterdayHint, utc)
            ELSE IF HasHint(last.query, TodayHint) THEN ParseTimeHints(TodayHint, utc)
            ELSE NoRange

\* a query with the three hints, "last week" last and in capitals, got the range
\* of "last week", which is neither the range of "yesterday" nor that of "today"
C29_Witness ==
    /\ last.done
    /\ last.query = TodayHint \o <<" ">> \o Upper(LastWeekHint)
    /\ ~last.result.none
    /\ last.result = ParseTimeHints(LastWeekHint, utc)
    /\ last.result # ParseTimeHints(YesterdayHint, utc)
    /\ last.result # ParseTimeHints(TodayHint, utc)

\* the ids of the records of the scope that hold the text and were created at
\* from <= created_at < to
CreatedWithin(d, user_scope, text, from, to) ==
    {id \in DOMAIN d.memories :
        /\ d.memories[id].user_scope = user_scope
        /\ Within(d.memories[id].content, text)
        /\ from <= d.memories[id].created_at
        /\ d.memories[id].created_at < to}

\* C30: memory_query with "today" returns records created at or after the midnight
\* before now and before the midnight after it, and with "yesterday" records created
\* at or after the midnight a day earlier and before the midnight before now; without
\* the index these are all the records of the caller that hold the text.
C30_DayWindowsAreHalfOpen ==
    [][ (last'.tool = "memory_query" /\ last' # last) =>
            LET q == last'.args.query
                from == IF q = TodayHint THEN Midnight(utc) ELSE Midnight(utc) - TicksPerDay
                items == last'.result.items
            IN  /\ \A i \in 1..Len(items) :
                      from <= items[i].created_at /\ items[i].created_at < from + TicksPerDay
                /\ ~db.fts5 =>
                      ItemIds(items)
                          = CreatedWithin(db, last'.user_scope, q, from, from + TicksPerDay)
      ]_vars

\* a searched field of the record holds the text
HoldsText(row, text) ==
    Within(row.content, text) \/ Within(row.context, text) \/ Within(row.tags, text)

\* C31: a memory_query whose text has a time hint returns only records of the
\* caller that hold the text of the query and were created within the range of the
\* hint; with "today" it returns no item when the caller has no record created
\* today.
C31_WindowAndTextBothHold ==
    [][ (last'.tool = "memory_query" /\ last' # last) =>
            LET q == last'.args.query
                range == ParseTimeHints(q, utc)
                items == last'.result.items
            IN  ~range.none =>
                  /\ \A i \in 1..Len(items) :
                        /\ items[i].id \in DOMAIN db.memories
                        /\ db.memories[items[i].id].user_scope = last'.user_scope
                        /\ HoldsText(db.memories[items[i].id], q)
                        /\ range.start <= items[i].created_at
                        /\ items[i].created_at <= range.end
                  /\ ( /\ q = TodayHint
                       /\ \A id \in DOMAIN db.memories :
                             db.memories[id].user_scope = last'.user_scope
                                => DayOf(db.memories[id].created_at) # DayOf(utc) )
                     => items = << >>
      ]_vars

(***************************************************************************)
(* Store then list.  Each caller keeps a note of its latest memory_store   *)
(* made without tags: the id returned and the content sent.  A later store *)
(* of the scope replaces the note, a delete that removed a record of the   *)
(* scope drops it, and a memory_update that reached the noted record with  *)
(* content or tags supplied marks it edited.                               *)
(***************************************************************************)
NoNote == [id |-> 0, content |-> << >>, edited |-> FALSE]
DefaultWindow == [limit |-> 20, offset |-> 0]
ListContents == {<<"a">>, <<" ">>}
ListEdits == { [content |-> <<"b">>, tags |-> NoList, context |-> Null],
               [content |-> Null, tags |-> << <<"b">> >>, context |-> Null],
               [content |-> Null, tags |-> NoList, context |-> <<"a">>] }

InitList ==
    /\ InitLimiter
    /\ InitLoop
    /\ InitIdle
    /\ domain = "memory"
    /\ \E fts5 \in BOOLEAN :
          /\ db = InitDatabase(EmptyDb(fts5))
          /\ solo = [s \in Scopes |-> InitDatabase(EmptyDb(fts5))]
    /\ idmap = [s \in Scopes |-> NoNote]
    /\ utc = 0
    /\ last = NoCall

NotedStore(s, content, tags) ==
    /\ db.memories_seq < MaxRows
    /\ \E out \in {tool_memory_store(db, utc, s, content, tags, Null)} :
          Call("memory_store", s, [content |-> content, tags |-> tags], out,
               [db |-> solo[s]],
               IF out.raised THEN idmap[s]
               ELSE IF tags = NoList
               THEN [id |-> out.result.id, content |-> content, edited |-> FALSE]
               ELSE NoNote)

NotedUpdate(s, id, edit) ==
    \E out \in {tool_memory_update(db, utc, s, id, edit.content, edit.tags,
                                   edit.context)} :
        Call("memory_update", s, [id |-> id, edit |-> edit], out, [db |-> solo[s]],
             IF /\ ~out.raised
                /\ out.result.updated # 0
                /\ id = idmap[s].id
                /\ (edit.content # Null \/ edit.tags # NoList)
             THEN [idmap[s] EXCEPT !.edited = TRUE]
             ELSE idmap[s])

NotedDelete(s, id) ==
    \E out \in {tool_memory_delete(db, s, id)} :
        Call("memory_delete", s, [id |-> id], out, [db |-> solo[s]],
             IF out.result.deleted # 0 THEN NoNote ELSE idmap[s])

NotedList(s, w) ==
    \E out \in {tool_memory_list(db, s, w.limit, w.offset)} :
        Call("memory_list", s, w, out, [db |-> solo[s]], idmap[s])

NextList ==
    \/ \E s \in Scopes, content \in ListContents, tags \in TagLists :
          NotedStore(s, content, tags)
    \/ \E s \in Scopes, id \in 1..MaxRows, edit \in ListEdits : NotedUpdate(s, id, edit)
    \/ \E s \in Scopes, id \in 1..MaxRows : NotedDelete(s, id)
    \/ \E s \in Scopes, w \in Windows : NotedList(s, w)

SpecList == InitList /\ [][NextList]_vars

\* the last call was a memory_list with the default window and its first item is the
\* noted record of the caller: the noted id, the content sent, no tags
ListedNoteFirst ==
    LET note == idmap[last.user_scope]
        items == last.result.items
    IN  /\ Len(items) >= 1
        /\ items[1].id = note.id
        /\ items[1].content = note.content
        /\ items[1].tags = << >>

DefaultListAfterStore ==
    /\ last.tool = "memory_list"
    /\ last.args = DefaultWindow
    /\ idmap[last.user_scope].id # 0

\* C32 as stated: after a memory_store with content c and no tags returned an id in
\* scope S, a memory_list with the default limit and offset in S, with no store or
\* delete of S in between, has the item with that id, content c and tags [] first.
C32_StoredRecordIsListedFirst ==
    DefaultListAfterStore => ListedNoteFirst

\* C32 amended: the same, provided also that no memory_update of S in between
\* reached that record with content or tags supplied.
C32_StoredUneditedRecordIsListedFirst ==
    (DefaultListAfterStore /\ ~idmap[last.user_scope].edited) => ListedNoteFirst

\* the scope stored two records, the second was then given a context only, and the
\* default list has that second record first
C32_Witness ==
    /\ DefaultListAfterStore
    /\ ~idmap[last.user_scope].edited
    /\ Len(last.result.items) = 2
    /\ last.result.items[1].id = idmap[last.user_scope].id
    /\ last.result.items[1].context # Null

(***************************************************************************)
(* Tags written and read back.  Each caller keeps, per id, the tag list it *)
(* last sent for the record with memory_store or memory_update.            *)
(***************************************************************************)
TagInputs == { NoList, << >>, << <<"a">>, <<"b">> >>, << <<"b">>, <<"a">> >>,
               << << >> >>, << << >>, <<"a">> >>, << <<"a", ",", "b">> >> }
NoTagNotes == << >>

InitTags ==
    /\ InitLimiter
    /\ InitLoop
    /\ InitIdle
    /\ domain = "memory"
    /\ \E fts5 \in BOOLEAN :
          /\ db = InitDatabase(EmptyDb(fts5))
          /\ solo = [s \in Scopes |-> InitDatabase(EmptyDb(fts5))]
    /\ idmap = [s \in Scopes |-> NoTagNotes]
    /\ utc = 0
    /\ last = NoCall

TaggedStore(s, tags) ==
    /\ db.memories_seq < MaxRows
    /\ \E out \in {tool_memory_store(db, utc, s, <<"a">>, tags, Null)} :
          Call("memory_store", s, [content |-> <<"a">>, tags |-> tags], out,
               [db |-> solo[s]],
               IF out.raised THEN idmap[s] ELSE Put(idmap[s], out.result.id, tags))

TaggedUpdate(s, id, tags) ==
    \E out \in {tool_memory_update(db, utc, s, id, Null, tags, Null)} :
        Call("memory_update", s, [id |-> id, tags |-> tags], out, [db |-> solo[s]],
             IF ~out.raised /\ out.result.updated # 0 /\ tags # NoList
             THEN Put(idmap[s], id, tags)
             ELSE idmap[s])

TaggedRead(s, tool) ==
    \E out \in { CASE tool = "memory_list" -> tool_memory_list(db, s, 20, 0)
                   [] tool = "memory_query" -> tool_memory_query(db, utc, s, <<"a">>, 20)
                   [] tool = "memory_export" -> tool_memory_export(db, s) } :
        Call(tool, s, << >>, out, [db |-> solo[s]], idmap[s])

ReadTools == {"memory_list", "memory_query", "memory_export"}

NextTags ==
    \/ \E s \in Scopes, tags \in TagInputs : TaggedStore(s, tags)
    \/ \E s \in Scopes, id \in 1..MaxRows, tags \in TagInputs : TaggedUpdate(s, id, tags)
    \/ \E s \in Scopes, tool \in ReadTools : TaggedRead(s, tool)
    \/ Restart

SpecTags == InitTags /\ [][NextTags]_vars

\* the items the last call read back
ItemsRead == IF last.tool = "memory_export" THEN last.result.json ELSE last.result.items

NoComma(tags) == \A i \in 1..Len(tags) : \A j \in 1..Len(tags[i]) : tags[i][j] # ","

\* C33: a tag list that validation accepted and whose tags hold no comma, written
\* with memory_store or memory_update, is read back by list, query and export as the
\* same list in the same order; an empty or absent list is read back as [].
C33_TagsRoundTrip ==
    last.tool \in ReadTools =>
        \A i \in 1..Len(ItemsRead) :
            LET sent == idmap[last.user_scope][ItemsRead[i].id]
            IN  /\ (sent = NoList \/ sent = << >>) => ItemsRead[i].tags = << >>
                /\ (sent # NoList /\ NoComma(sent)) => ItemsRead[i].tags = sent

\* C34: in every state each memory record and each link record has
\* updated_at >= created_at, whatever stores, saves (a save of a URL that has a row
\* included), updates and stored summaries came before.
C34_UpdatedNotBeforeCreated ==
    /\ \A id \in DOMAIN db.memories :
          db.memories[id].updated_at >= db.memories[id].created_at
    /\ \A id \in DOMAIN db.links :
          db.links[id].updated_at >= db.links[id].created_at

\* a link saved, saved again at a later time and given a summary later still
C34_Witness ==
    \E id \in DOMAIN db.links :
        /\ db.links[id].updated_at > db.links[id].created_at
        /\ db.links[id].summary_updated_at > db.links[id].updated_at

\* the record of a row that stays the same across its life: who created it and when
\* (and for a link its url)
SameMemory(a, b) == a.user_scope = b.user_scope /\ a.created_at = b.created_at
SameLink(a, b) == SameMemory(a, b) /\ a.url = b.url

\* C35: an id created by a step is larger than every id the table has given out
\* before (so ids rise in creation order and the id of a deleted record is not given
\* again); only a delete takes an id away, and the record under an id that stays is
\* the same record: update, upsert and store_summary change no id.
C35_IdsRiseAndStay ==
    [][ /\ \A id \in DOMAIN db'.memories \ DOMAIN db.memories :
              id > db.memories_seq /\ id <= db'.memories_seq
        /\ \A id \in DOMAIN db'.links \ DOMAIN db.links :
              id > db.links_seq /\ id <= db'.links_seq
        /\ db'.memories_seq >= db.memories_seq
        /\ db'.links_seq >= db.links_seq
        /\ last'.tool # "memory_delete" => DOMAIN db.memories \subseteq DOMAIN db'.memories
        /\ last'.tool # "link_delete" => DOMAIN db.links \subseteq DOMAIN db'.links
        /\ \A id \in DOMAIN db.memories \cap DOMAIN db'.memories :
              SameMemory(db.memories[id], db'.memories[id])
        /\ \A id \in DOMAIN db.links \cap DOMAIN db'.links :
              SameLink(db.links[id], db'.links[id])
      ]_vars

\* a record was stored after the only earlier one had been deleted, and got id 2
C35_Witness ==
    /\ last.tool = "memory_store"
    /\ ~last.raised
    /\ last.result.id = 2
    /\ DOMAIN db.memories = {2}

\* C36: for every key at most one bucket is ever made, however the first requests
\* of the key interleave: the bucket in the map is the first made for its key, so no
\* two calls charge different buckets and no bucket that was charged is replaced.
C36_OneBucketPerKey ==
    \A key \in DOMAIN buckets : buckets[key].serial = 1

\* two first requests of one key in flight: one found no bucket and has made it,
\* the other still awaits its body
C36_Witness ==
    \E r1, r2 \in Requests :
        /\ pc[r1] = "allow_checked" /\ local[r1].found = 0
        /\ pc[r2] = "await_json"
        /\ local[r1].key = local[r2].key
        /\ calls[local[r1].key].n = 0

\* C37: under sequential calls, for every key and every interval, the calls of the
\* key granted within the interval are at most burst + rate * (length of the
\* interval), and the token count of every bucket is within [0, capacity].
C37_GrantsPerIntervalAndTokenRange ==
    /\ \A key \in LimiterKeys : \A from \in 0..now :
          calls[key].since[from] * Cost <= Capacity + (now - from) * Rate
    /\ \A key \in DOMAIN buckets :
          buckets[key].tokens >= 0 /\ buckets[key].tokens <= Capacity

\* the burst was spent at the first instant and one more call was granted later, from
\* the refill: an interval that starts after the burst holds that one grant
C37_Witness ==
    \E key \in LimiterKeys :
        /\ lastAllow.key = key /\ lastAllow.ok
        /\ calls[key].granted = Burst + 1
        /\ calls[key].since[1] = 1
        /\ calls[key].n > calls[key].granted

\* the instant of the latest granted call of the key
LastGrant(key) ==
    CHOOSE t \in 0..MaxWindowTime :
        /\ calls[key].since[t] > 0
        /\ \A u \in (t + 1)..MaxWindowTime : calls[key].since[u] = 0

\* C38: a refused call keeps the refill it found: a call made 1/rate seconds or more
\* after the grant that left the bucket with less than one token is granted, however
\* many refused calls came in between.  Stated on the refused call: it comes less
\* than 1/rate seconds after the latest grant.
C38_RefusedCallsKeepRefill ==
    (lastAllow.key # NoKey /\ ~lastAllow.ok) =>
        lastAllow.at - LastGrant(lastAllow.key) < TicksPerToken

\* after the burst, a call half way to the next token was refused, and the call made
\* 1/rate seconds after the burst is granted from the two half refills
C38_Witness ==
    /\ lastAllow.key # NoKey
    /\ lastAllow.ok
    /\ calls[lastAllow.key].granted = Burst + 1
    /\ calls[lastAllow.key].since[1] = 1
    /\ lastAllow.at = TicksPerToken
    /\ lastAllow.prevAt > 0 /\ lastAllow.prevAt < lastAllow.at
    /\ lastAllow.before = lastAllow.prevAt * Rate

\* C39: a memory_update with none of content, tags and context supplied returns
\* updated = 0 and leaves the record, its updated_at included, and the index row as
\* they were.
C39_UpdateWithoutFieldsIsNoOp ==
    [][ (last'.tool = "memory_update" /\ last'.args.edit = NoEdit /\ utc' = utc)
            => /\ ~last'.raised
               /\ last'.result.updated = 0
               /\ db' = db
      ]_vars

\* the step is a memory_update that reached a record of the caller's scope
UpdateOfOwnRecord ==
    /\ last'.tool = "memory_update"
    /\ ~last'.raised
    /\ last'.args.id \in DOMAIN db.memories
    /\ db.memories[last'.args.id].user_scope = last'.user_scope

\* the columns of row b that the edit did not supply are those of row a
Unsupplied(edit, a, b) ==
    /\ edit.content = Null => b.content = a.content
    /\ edit.context = Null => b.context = a.context
    /\ edit.tags = NoList => b.tags = a.tags

\* C40: a memory_update of a record of the caller's scope changes, besides
\* updated_at, only the fields it supplies among content, context and tags: id,
\* user_scope, created_at and the fields not supplied stay, in the base table and in
\* the index row.
C40_UpdateChangesSuppliedFieldsOnly ==
    [][ UpdateOfOwnRecord =>
          LET id == last'.args.id
              edit == last'.args.edit
          IN  /\ DOMAIN db'.memories = DOMAIN db.memories
              /\ db'.memories[id].user_scope = db.memories[id].user_scope
              /\ db'.memories[id].created_at = db.memories[id].created_at
              /\ Unsupplied(edit, db.memories[id], db'.memories[id])
              /\ \A other \in DOMAIN db.memories \ {id} :
                    db'.memories[other] = db.memories[other]
              /\ DOMAIN db'.memories_fts = DOMAIN db.memories_fts
              /\ id \in DOMAIN db.memories_fts =>
                    /\ db'.memories_fts[id].user_scope = db.memories_fts[id].user_scope
                    /\ Unsupplied(edit, db.memories_fts[id], db'.memories_fts[id])
      ]_vars

\* a record that had a context and tags, and an index row, was given a new content
\* only
C40_Witness ==
    /\ last.tool = "memory_update"
    /\ ~last.raised
    /\ last.result.updated = 1
    /\ last.args.edit.content # Null
    /\ last.args.edit.context = Null
    /\ last.args.id \in DOMAIN db.memories_fts
    /\ db.memories[last.args.id].content = last.args.edit.content
    /\ db.memories[last.args.id].context # Null
    /\ db.memories[last.args.id].tags # Null

====
